---- MODULE Spec2Model ----
(***************************************************************************)
(* wflDB: a permissioned key-object store.                                 *)
(*                                                                         *)
(* Storage engine (wfldb-engine): one fjall partition per bucket, written  *)
(* one entry at a time by Bucket::put_small, Bucket::put_large and         *)
(* Bucket::delete, each of which ends with Keyspace::persist.              *)
(* Security plane (wfldb-core/auth): DelegationRegistry / KeyAuthority and *)
(* NonceCache.                                                             *)
(*                                                                         *)
(* Byte strings are kept run-length encoded, a sequence of runs            *)
(* [b |-> byte, n |-> count] with n >= 1 and no two adjacent runs of the   *)
(* same byte, so that objects of 64 KiB and 4 MiB are handled with the     *)
(* sizes the code uses.  An Option<T> is <<>> (None) or <<x>> (Some(x)).   *)
(***************************************************************************)
EXTENDS Integers, Sequences, FiniteSets, TLC

VARIABLES
    part,               \* fjall partitions, bucket -> (partition key -> value)
    durable,            \* what the last Keyspace::persist made durable
    journal,            \* partition writes since the last persist, in order
    th,                 \* per caller: the storage call in progress
    ret,                \* per caller: the result of the last call, once returned
    expect,             \* history: per (bucket, key) the last completed write
    replaced,           \* history: some put was issued on a live key
    now,                \* SystemTime::now(), seconds since the epoch
    alive,              \* the process holding the registry is running
    revoked_keys,       \* DelegationRegistry.revoked_keys
    revocation_history, \* DelegationRegistry.revocation_history
    delegation_chains,  \* DelegationRegistry.delegation_chains
    permission_cache,   \* DelegationRegistry.permission_cache
    authRet,            \* the last call on the authority and its result
    everRevoked,        \* history: keys for which revoke_key returned Ok
    nonces,             \* NonceCache.nonces
    nonceRet,           \* the last check_nonce call and its result
    accepted,           \* history: the check_nonce calls that returned Ok
    tokens,             \* the key packets issued so far, in order of issue
    tokRet,             \* the last delegate call and its result
    signedReq,          \* the last SignedRequest made by CanonicalRequest::sign
    verifyRet,          \* the last SignedRequest::verify call and its result
    versions,           \* the Versions made by Version::new, in order of the calls
    frame,              \* the last WireFrame made by WireFrame::new, if any
    wire,               \* the bytes on the wire
    parsed,             \* what WireFrame::from_bytes made of the bytes, if called
    pending             \* the frames written to the stream and not yet read

storeVars == <<part, durable, journal, th, ret, expect, replaced>>

authVars == <<alive, revoked_keys, revocation_history, delegation_chains,
              permission_cache, authRet, everRevoked>>

nonceVars == <<nonces, nonceRet, accepted>>

tokenVars == <<tokens, tokRet>>

signVars == <<signedReq, verifyRet>>

netVars == <<versions, frame, wire, parsed, pending>>

\* what the storage engine does not touch
otherVars == <<now, authVars, nonceVars, tokenVars, signVars, netVars>>

vars == <<storeVars, otherVars>>

None == <<>>
Some(x) == <<x>>
IsSome(o) == o # <<>>
Unwrap(o) == o[1]

RECURSIVE SumSeq(_)
SumSeq(s) == IF s = <<>> THEN 0 ELSE Head(s) + SumSeq(Tail(s))

(***************************************************************************)
(* Byte strings (Vec<u8>, &[u8]), run-length encoded.                      *)
(***************************************************************************)
Run(b, n) == [b |-> b, n |-> n]

Rep(b, n) == IF n = 0 THEN <<>> ELSE <<Run(b, n)>>

RECURSIVE BLen(_)
BLen(s) == IF s = <<>> THEN 0 ELSE Head(s).n + BLen(Tail(s))

\* Vec::extend: concatenation, merging the runs that meet
BCat(s, t) ==
    IF s = <<>> THEN t
    ELSE IF t = <<>> THEN s
    ELSE IF s[Len(s)].b = t[1].b
         THEN SubSeq(s, 1, Len(s) - 1)
                \o <<Run(t[1].b, s[Len(s)].n + t[1].n)>> \o Tail(t)
         ELSE s \o t

\* data[..n] for n <= len
RECURSIVE BTake(_, _)
BTake(s, n) ==
    IF n = 0 \/ s = <<>> THEN <<>>
    ELSE IF Head(s).n <= n
         THEN BCat(<<Head(s)>>, BTake(Tail(s), n - Head(s).n))
         ELSE <<Run(Head(s).b, n)>>

\* data[n..] for n <= len
RECURSIVE BDrop(_, _)
BDrop(s, n) ==
    IF n = 0 \/ s = <<>> THEN s
    ELSE IF Head(s).n <= n
         THEN BDrop(Tail(s), n - Head(s).n)
         ELSE <<Run(Head(s).b, Head(s).n - n)>> \o Tail(s)

RECURSIVE BCatAll(_)
BCatAll(cs) == IF cs = <<>> THEN <<>> ELSE BCat(Head(cs), BCatAll(Tail(cs)))

(***************************************************************************)
(* Program constants.                                                      *)
(***************************************************************************)
VALUE_THRESHOLD == 65536

CHUNK_SIZE == 4194304

\* slice::chunks(CHUNK_SIZE): consecutive pieces of CHUNK_SIZE bytes, the
\* last one possibly shorter, none for an empty slice
RECURSIVE chunk_data_exact(_)
chunk_data_exact(data) ==
    IF BLen(data) < CHUNK_SIZE THEN <<>>
    ELSE <<BTake(data, CHUNK_SIZE)>> \o chunk_data_exact(BDrop(data, CHUNK_SIZE))

RECURSIVE chunk_data(_)
chunk_data(data) ==
    IF data = <<>> THEN <<>>
    ELSE <<BTake(data, CHUNK_SIZE)>> \o chunk_data(BDrop(data, CHUNK_SIZE))

\* BLAKE3-256, taken as collision free: the digest names its preimage
ContentHash(data) == [blake3 |-> data]

\* u32::to_le_bytes / u32::from_le_bytes
to_le_bytes(n) ==
    <<n % 256, (n \div 256) % 256, (n \div 65536) % 256, (n \div 16777216) % 256>>

from_le_bytes(v) == v[1] + 256 * v[2] + 65536 * v[3] + 16777216 * v[4]

ChunkManifest(chunks, chunk_size, total_size) ==
    [chunks |-> chunks, chunk_size |-> chunk_size, total_size |-> total_size]

new_inline(size, content_hash) ==
    [size |-> size, content_hash |-> Some(content_hash), chunk_manifest |-> None]

new_chunked(manifest) ==
    [size |-> manifest.total_size, content_hash |-> None,
     chunk_manifest |-> Some(manifest)]

is_chunked(metadata) == IsSome(metadata.chunk_manifest)

(***************************************************************************)
(* Partition keys and point operations of a fjall partition.               *)
(***************************************************************************)
metadata_key(key) == <<"meta:", key>>

data_key(key) == <<"data:", key>>

chunk_key(hash) == <<"chunk:", hash>>

chunk_ref_key(hash) == <<"chunkref:", hash>>

PGet(p, k) == IF k \in DOMAIN p THEN Some(p[k]) ELSE None

PInsert(p, k, v) == [x \in (DOMAIN p) \cup {k} |-> IF x = k THEN v ELSE p[x]]

PRemove(p, k) == [x \in (DOMAIN p) \ {k} |-> p[x]]

EmptyPartition == [x \in {} |-> 0]

(***************************************************************************)
(* Bounds and inputs of the storage model.                                 *)
(***************************************************************************)
MaxRef == 3

Buckets == {"b1", "b2"}

Keys == {<<"a">>, <<"a", "b">>}

Threads == {1, 2}

\* keys and prefixes of the listing model
ListKeys == Keys \cup {<<"b">>}

Prefixes == {<<>>, <<"a">>, <<"a", "b">>, <<"b">>, <<"c">>}

ChunkA == Rep(1, CHUNK_SIZE)

ChunkB == Rep(2, 1024)

DSmall == <<Run(1, 2), Run(2, 1)>>

DThreshold == Rep(1, VALUE_THRESHOLD)

DOver == Rep(1, VALUE_THRESHOLD + 1)

DTwoChunks == BCat(Rep(1, CHUNK_SIZE), ChunkB)

\* bodies handed to Storage::put_object
ObjectData == {<<>>, DThreshold, DOver, DTwoChunks}

\* bodies handed to Bucket::put_small directly
SmallData == {DSmall, DOver}

\* chunk lists handed to Bucket::put_large directly
ChunkLists == {<<>>, <<ChunkA, ChunkB>>, <<ChunkA, ChunkB, ChunkA>>}

AllChunks ==
    UNION {{cs[i] : i \in 1..Len(cs)} : cs \in ChunkLists}
      \cup UNION {{chunk_data(d)[i] : i \in 1..Len(chunk_data(d))} : d \in ObjectData}

AllHashes == {ContentHash(c) : c \in AllChunks}

(***************************************************************************)
(* Reads of a bucket's partition.                                          *)
(***************************************************************************)
\* Bucket::get_metadata
get_metadata(p, key) == PGet(p, metadata_key(key))

\* Bucket::get_small
get_small(p, key) == PGet(p, data_key(key))

\* Bucket::get_chunk
get_chunk(p, hash) == PGet(p, chunk_key(hash))

\* Result<Option<Vec<u8>>>
Ok(v) == [res |-> "Ok", val |-> v, err |-> ""]

Err(kind) == [res |-> "Err", val |-> None, err |-> kind]

\* get_large_object that passes over a chunk it does not find
RECURSIVE get_large_chunks_skipping(_, _)
get_large_chunks_skipping(p, hashes) ==
    IF hashes = <<>> THEN Ok(<<>>)
    ELSE LET c == get_chunk(p, Head(hashes))
             rest == get_large_chunks_skipping(p, Tail(hashes)) IN
         IF ~IsSome(c) THEN rest
         ELSE Ok(BCat(Unwrap(c), rest.val))

\* Storage::get_large_object: the chunks of the manifest, in manifest order
RECURSIVE get_large_chunks(_, _)
get_large_chunks(p, hashes) ==
    IF hashes = <<>> THEN Ok(<<>>)
    ELSE LET c == get_chunk(p, Head(hashes)) IN
         IF ~IsSome(c) THEN Err("Internal")
         ELSE LET rest == get_large_chunks(p, Tail(hashes)) IN
              IF rest.res = "Err" THEN rest
              ELSE Ok(BCat(Unwrap(c), rest.val))

get_large_object(p, metadata) ==
    IF ~IsSome(metadata.chunk_manifest) THEN Err("Internal")
    ELSE LET r == get_large_chunks(p, Unwrap(metadata.chunk_manifest).chunks) IN
         IF r.res = "Err" THEN r ELSE Ok(Some(r.val))

\* Storage::get_object
get_object(p, key) ==
    LET m == get_metadata(p, key) IN
    IF IsSome(m)
    THEN IF is_chunked(Unwrap(m)) THEN get_large_object(p, Unwrap(m))
         ELSE Ok(get_small(p, key))
    ELSE Ok(None)

\* the reference count stored for a chunk, 0 when there is none
RefCount(p, hash) ==
    IF chunk_ref_key(hash) \in DOMAIN p
    THEN from_le_bytes(p[chunk_ref_key(hash)]) ELSE 0

Occurrences(hashes, h) == Cardinality({i \in 1..Len(hashes) : hashes[i] = h})

ManifestOf(p, key) ==
    LET m == get_metadata(p, key) IN
    IF IsSome(m) /\ is_chunked(Unwrap(m))
    THEN Unwrap(Unwrap(m).chunk_manifest).chunks ELSE <<>>

\* occurrences of h in the manifests of the live objects of the bucket
RECURSIVE LiveRefsIn(_, _, _)
LiveRefsIn(p, ks, h) ==
    IF ks = {} THEN 0
    ELSE LET k == CHOOSE x \in ks : TRUE IN
         Occurrences(ManifestOf(p, k), h) + LiveRefsIn(p, ks \ {k}, h)

LiveRefs(p, h) == LiveRefsIn(p, Keys, h)

(***************************************************************************)
(* Prefix scans.  A partition key is the bytes of its tag followed by the  *)
(* bytes of the object key (or the hex digits of the chunk hash); fjall     *)
(* iterates a partition in ascending byte order of its keys.               *)
(***************************************************************************)
\* the byte of a character
Ascii ==
    ":" :> 58 @@ "0" :> 48 @@ "a" :> 97 @@ "b" :> 98 @@ "c" :> 99 @@
    "d" :> 100 @@ "e" :> 101 @@ "f" :> 102 @@ "h" :> 104 @@ "k" :> 107 @@
    "m" :> 109 @@ "n" :> 110 @@ "r" :> 114 @@ "t" :> 116 @@ "u" :> 117

\* the characters of the tags of metadata_key, data_key, chunk_key and
\* chunk_ref_key
TagChars ==
    "meta:" :> <<"m", "e", "t", "a", ":">> @@
    "data:" :> <<"d", "a", "t", "a", ":">> @@
    "chunk:" :> <<"c", "h", "u", "n", "k", ":">> @@
    "chunkref:" :> <<"c", "h", "u", "n", "k", "r", "e", "f", ":">>

\* the bytes of a partition key; the hex digits of a hash are not told
\* apart here, a chunk key differs from every meta: key at its first byte
key_bytes(pk) ==
    TagChars[pk[1]] \o (IF pk[1] \in {"meta:", "data:"} THEN pk[2] ELSE <<"0">>)

\* byte order of Vec<u8>: x < y
RECURSIVE LexLess(_, _)
LexLess(x, y) ==
    IF y = <<>> THEN FALSE
    ELSE IF x = <<>> THEN TRUE
    ELSE IF Ascii[Head(x)] # Ascii[Head(y)] THEN Ascii[Head(x)] < Ascii[Head(y)]
    ELSE LexLess(Tail(x), Tail(y))

\* slice::starts_with, str::starts_with
starts_with(x, prefix) ==
    Len(prefix) <= Len(x) /\ SubSeq(x, 1, Len(prefix)) = prefix

\* the partition keys of a set in ascending byte order
RECURSIVE Ascending(_)
Ascending(pks) ==
    IF pks = {} THEN <<>>
    ELSE LET first == CHOOSE x \in pks :
                 \A y \in pks \ {x} : LexLess(key_bytes(x), key_bytes(y)) IN
         <<first>> \o Ascending(pks \ {first})

\* Partition::range(start..): the entries from start on, in key order
range(p, start) ==
    Ascending({pk \in DOMAIN p : ~LexLess(key_bytes(pk), start)})

\* Key::new: Some(key) unless the string is empty (no control characters
\* occur in the model)
Key_new(str) == IF str = <<>> THEN None ELSE Some(str)

\* Key::has_prefix
has_prefix(key, prefix) == starts_with(key, prefix)

\* str::strip_prefix("meta:")
strip_meta(kb) ==
    IF starts_with(kb, TagChars["meta:"])
    THEN Some(SubSeq(kb, Len(TagChars["meta:"]) + 1, Len(kb)))
    ELSE None

\* Bucket::scan_prefix, its loop over the iterator; max_results = None is
\* usize::MAX
RECURSIVE ScanLoop(_, _, _, _, _)
ScanLoop(items, prefix_bytes, prefix, keys, max_results) ==
    IF items = <<>> THEN keys
    ELSE LET kb == key_bytes(Head(items)) IN
         IF ~starts_with(kb, prefix_bytes) THEN keys
         ELSE LET actual == strip_meta(kb)
                  key == IF IsSome(actual) THEN Key_new(Unwrap(actual)) ELSE None IN
              IF IsSome(key) /\ has_prefix(Unwrap(key), prefix)
              THEN LET pushed == Append(keys, Unwrap(key)) IN
                   IF IsSome(max_results) /\ Len(pushed) >= Unwrap(max_results)
                   THEN pushed
                   ELSE ScanLoop(Tail(items), prefix_bytes, prefix, pushed,
                                 max_results)
              ELSE ScanLoop(Tail(items), prefix_bytes, prefix, keys, max_results)

\* (variant: the iterator is not positioned at the prefix)
scan_prefix_unseeked(p, prefix, limit) ==
    ScanLoop(range(p, TagChars["meta:"]), TagChars["meta:"] \o prefix, prefix,
             <<>>, limit)

\* Bucket::scan_prefix
scan_prefix(p, prefix, limit) ==
    ScanLoop(range(p, TagChars["meta:"] \o prefix), TagChars["meta:"] \o prefix,
             prefix, <<>>, limit)

\* Storage::list_objects
list_objects(p, prefix, limit) == scan_prefix(p, prefix, limit)

(***************************************************************************)
(* The storage calls, one action per partition access.                     *)
(***************************************************************************)
Idle ==
    [pc |-> "idle", op |-> "none", b |-> "", key |-> <<>>, data |-> <<>>,
     chunks |-> <<>>, hashes |-> <<>>, total |-> 0, csize |-> 0,
     ref |-> None, old |-> None, todo |-> <<>>, out |-> None,
     ops |-> <<>>, results |-> <<>>, before |-> <<>>]

NoRet ==
    [op |-> "none", b |-> "", key |-> <<>>, res |-> "", meta |-> None,
     old |-> None, new |-> None,
     ops |-> <<>>, results |-> <<>>, before |-> <<>>]

\* every bucket opening the same partition
Write_shared(b, k, v) ==
    /\ part' = [part EXCEPT !["b1"] =
                   IF IsSome(v) THEN PInsert(@, k, Unwrap(v)) ELSE PRemove(@, k)]
    /\ journal' = Append(journal, [b |-> "b1", k |-> k, v |-> v])
    /\ UNCHANGED durable

\* Partition::insert (v = Some(value)) and Partition::remove (v = None)
Write(b, k, v) ==
    /\ part' = [part EXCEPT ![b] =
                   IF IsSome(v) THEN PInsert(@, k, Unwrap(v)) ELSE PRemove(@, k)]
    /\ journal' = Append(journal, [b |-> b, k |-> k, v |-> v])
    /\ UNCHANGED durable

NoWrite == UNCHANGED <<part, journal, durable>>

\* no reference count is driven past MaxRef by storing the chunks
WithinMaxRef(b, chunks) ==
    \A c \in {chunks[i] : i \in 1..Len(chunks)} :
        RefCount(part[b], ContentHash(c))
          + Occurrences([i \in 1..Len(chunks) |-> ContentHash(chunks[i])],
                        ContentHash(c)) <= MaxRef

IsLive(b, key) == IsSome(get_metadata(part[b], key))

\* entry of Bucket::put_small past its size check
StartSmall(t, op, b, key, data) ==
    /\ th' = [th EXCEPT ![t] =
                [Idle EXCEPT !.pc = "ps_meta", !.op = op, !.b = b, !.key = key,
                             !.data = data,
                             !.old = get_metadata(part[b], key),
                             !.out = Some(new_inline(BLen(data), ContentHash(data)))]]
    /\ replaced' = (replaced \/ IsLive(b, key))
    /\ ret' = [ret EXCEPT ![t] = NoRet]
    /\ NoWrite
    /\ UNCHANGED <<expect, otherVars>>

\* entry of Bucket::put_large
StartLarge(t, op, b, key, data, chunks) ==
    /\ WithinMaxRef(b, chunks)
    /\ th' = [th EXCEPT ![t] =
                [Idle EXCEPT !.pc = "pl_loop", !.op = op, !.b = b, !.key = key,
                             !.data = data, !.chunks = chunks,
                             !.csize = IF chunks = <<>> THEN 0 ELSE BLen(chunks[1]),
                             !.old = get_metadata(part[b], key)]]
    /\ replaced' = (replaced \/ IsLive(b, key))
    /\ ret' = [ret EXCEPT ![t] = NoRet]
    /\ NoWrite
    /\ UNCHANGED <<expect, otherVars>>

\* put_object that sends a body of exactly VALUE_THRESHOLD bytes to put_large
put_object_strict(t, b, key, data) ==
    /\ th[t].pc = "idle"
    /\ IF BLen(data) < VALUE_THRESHOLD
       THEN StartSmall(t, "put_object", b, key, data)
       ELSE StartLarge(t, "put_object", b, key, data, chunk_data(data))

\* Storage::put_object: routing by size
put_object(t, b, key, data) ==
    /\ th[t].pc = "idle"
    /\ IF BLen(data) <= VALUE_THRESHOLD
       THEN StartSmall(t, "put_object", b, key, data)
       ELSE StartLarge(t, "put_object", b, key, data, chunk_data(data))

\* Bucket::put_small called directly
put_small(t, b, key, data) ==
    /\ th[t].pc = "idle"
    /\ BLen(data) <= VALUE_THRESHOLD
    /\ StartSmall(t, "put_small", b, key, data)

\* Bucket::put_small: "Data too large for small object storage"
put_small_too_large(t, b, key, data) ==
    /\ th[t].pc = "idle"
    /\ BLen(data) > VALUE_THRESHOLD
    /\ ret' = [ret EXCEPT ![t] =
                 [NoRet EXCEPT !.op = "put_small", !.b = b, !.key = key,
                               !.res = "Internal",
                               !.old = get_metadata(part[b], key)]]
    /\ NoWrite
    /\ UNCHANGED <<th, expect, replaced, otherVars>>

\* Bucket::put_large called directly
put_large(t, b, key, chunks) ==
    /\ th[t].pc = "idle"
    /\ StartLarge(t, "put_large", b, key, BCatAll(chunks), chunks)

\* put_small: insert(metadata_key, metadata_json)
put_small_meta(t) ==
    /\ th[t].pc = "ps_meta"
    /\ Write(th[t].b, metadata_key(th[t].key), th[t].out)
    /\ th' = [th EXCEPT ![t].pc = "ps_data"]
    /\ UNCHANGED <<ret, expect, replaced, otherVars>>

\* put_small: insert(data_key, data)
put_small_data(t) ==
    /\ th[t].pc = "ps_data"
    /\ Write(th[t].b, data_key(th[t].key), Some(th[t].data))
    /\ th' = [th EXCEPT ![t].pc = "persist"]
    /\ UNCHANGED <<ret, expect, replaced, otherVars>>

\* the bookkeeping at the end of one round of the loop of put_large
NextChunk(r) ==
    [r EXCEPT !.pc = "pl_loop",
              !.hashes = Append(@, ContentHash(Head(r.chunks))),
              !.total = @ + BLen(Head(r.chunks)),
              !.chunks = Tail(@),
              !.ref = None]

\* put_large: get(ref_key) for the next chunk, or the end of the loop
put_large_lookup(t) ==
    /\ th[t].pc = "pl_loop"
    /\ th[t].chunks # <<>>
    /\ th' = [th EXCEPT ![t].pc = "pl_ref",
                        ![t].ref = PGet(part[th[t].b],
                                        chunk_ref_key(ContentHash(Head(th[t].chunks))))]
    /\ NoWrite
    /\ UNCHANGED <<ret, expect, replaced, otherVars>>

\* (variant: the count is written back without the increment)
put_large_incr_same(t) ==
    /\ th[t].pc = "pl_ref"
    /\ IsSome(th[t].ref)
    /\ Write(th[t].b, chunk_ref_key(ContentHash(Head(th[t].chunks))),
             Some(to_le_bytes(from_le_bytes(Unwrap(th[t].ref)))))
    /\ th' = [th EXCEPT ![t] = NextChunk(@)]
    /\ UNCHANGED <<ret, expect, replaced, otherVars>>

\* put_large: the chunk exists, insert(ref_key, ref_count + 1)
put_large_incr(t) ==
    /\ th[t].pc = "pl_ref"
    /\ IsSome(th[t].ref)
    /\ Write(th[t].b, chunk_ref_key(ContentHash(Head(th[t].chunks))),
             Some(to_le_bytes(from_le_bytes(Unwrap(th[t].ref)) + 1)))
    /\ th' = [th EXCEPT ![t] = NextChunk(@)]
    /\ UNCHANGED <<ret, expect, replaced, otherVars>>

\* put_large: new chunk, insert(chunk_key, chunk)
put_large_chunk(t) ==
    /\ th[t].pc = "pl_ref"
    /\ ~IsSome(th[t].ref)
    /\ Write(th[t].b, chunk_key(ContentHash(Head(th[t].chunks))),
             Some(Head(th[t].chunks)))
    /\ th' = [th EXCEPT ![t].pc = "pl_newref"]
    /\ UNCHANGED <<ret, expect, replaced, otherVars>>

\* put_large: new chunk, insert(ref_key, 1)
put_large_ref(t) ==
    /\ th[t].pc = "pl_newref"
    /\ Write(th[t].b, chunk_ref_key(ContentHash(Head(th[t].chunks))),
             Some(to_le_bytes(1)))
    /\ th' = [th EXCEPT ![t] = NextChunk(@)]
    /\ UNCHANGED <<ret, expect, replaced, otherVars>>

\* put_large: insert(metadata_key, metadata_json) after the loop
put_large_meta(t) ==
    /\ th[t].pc = "pl_loop"
    /\ th[t].chunks = <<>>
    /\ LET metadata == new_chunked(ChunkManifest(th[t].hashes, th[t].csize,
                                                 th[t].total)) IN
       /\ Write(th[t].b, metadata_key(th[t].key), Some(metadata))
       /\ th' = [th EXCEPT ![t].pc = "persist", ![t].out = Some(metadata)]
    /\ UNCHANGED <<ret, expect, replaced, otherVars>>

\* delete that issues its removes whether or not it found metadata
delete_unconditional(t, b, key) ==
    /\ th[t].pc = "idle"
    /\ LET m == get_metadata(part[b], key) IN
       th' = [th EXCEPT ![t] =
                [Idle EXCEPT !.pc = "del_meta",
                             !.op = "delete", !.b = b, !.key = key, !.old = m]]
    /\ ret' = [ret EXCEPT ![t] = NoRet]
    /\ NoWrite
    /\ UNCHANGED <<expect, replaced, otherVars>>

\* Bucket::delete: get_metadata(key)
delete(t, b, key) ==
    /\ th[t].pc = "idle"
    /\ LET m == get_metadata(part[b], key) IN
       th' = [th EXCEPT ![t] =
                [Idle EXCEPT !.pc = IF IsSome(m) THEN "del_meta" ELSE "persist",
                             !.op = "delete", !.b = b, !.key = key, !.old = m]]
    /\ ret' = [ret EXCEPT ![t] = NoRet]
    /\ NoWrite
    /\ UNCHANGED <<expect, replaced, otherVars>>

\* (variant: the metadata entry is left in place)
delete_meta_kept(t) ==
    /\ th[t].pc = "del_meta"
    /\ NoWrite
    /\ th' = [th EXCEPT ![t].pc = "del_data"]
    /\ UNCHANGED <<ret, expect, replaced, otherVars>>

\* delete: remove(metadata_key)
delete_meta(t) ==
    /\ th[t].pc = "del_meta"
    /\ Write(th[t].b, metadata_key(th[t].key), None)
    /\ th' = [th EXCEPT ![t].pc = "del_data"]
    /\ UNCHANGED <<ret, expect, replaced, otherVars>>

\* delete: remove(data_key), then the manifest of the metadata read, if any
delete_data(t) ==
    /\ th[t].pc = "del_data"
    /\ Write(th[t].b, data_key(th[t].key), None)
    /\ LET manifest == Unwrap(th[t].old).chunk_manifest
           todo == IF IsSome(manifest) THEN Unwrap(manifest).chunks ELSE <<>> IN
       th' = [th EXCEPT ![t].pc = IF todo = <<>> THEN "persist" ELSE "del_loop",
                        ![t].todo = todo]
    /\ UNCHANGED <<ret, expect, replaced, otherVars>>

\* the end of one round of the loop of delete
NextHash(r) ==
    [r EXCEPT !.pc = IF Tail(r.todo) = <<>> THEN "persist" ELSE "del_loop",
              !.todo = Tail(@),
              !.ref = None]

\* delete: get(ref_key) of the next chunk hash; no count stored, next hash
delete_lookup(t) ==
    /\ th[t].pc = "del_loop"
    /\ LET r == PGet(part[th[t].b], chunk_ref_key(Head(th[t].todo))) IN
       th' = [th EXCEPT ![t] =
                IF IsSome(r) THEN [@ EXCEPT !.pc = "del_ref", !.ref = r]
                ELSE NextHash(@)]
    /\ NoWrite
    /\ UNCHANGED <<ret, expect, replaced, otherVars>>

\* (variant: the blob is removed whatever the count, as before reference
\* counting)
delete_decr_blob(t) ==
    /\ th[t].pc = "del_ref"
    /\ from_le_bytes(Unwrap(th[t].ref)) > 1
    /\ Write(th[t].b, chunk_key(Head(th[t].todo)), None)
    /\ th' = [th EXCEPT ![t] = NextHash(@)]
    /\ UNCHANGED <<ret, expect, replaced, otherVars>>

\* delete: ref_count > 1, insert(ref_key, ref_count - 1)
delete_decr(t) ==
    /\ th[t].pc = "del_ref"
    /\ from_le_bytes(Unwrap(th[t].ref)) > 1
    /\ Write(th[t].b, chunk_ref_key(Head(th[t].todo)),
             Some(to_le_bytes(from_le_bytes(Unwrap(th[t].ref)) - 1)))
    /\ th' = [th EXCEPT ![t] = NextHash(@)]
    /\ UNCHANGED <<ret, expect, replaced, otherVars>>

\* delete: last reference, remove(chunk_key)
delete_chunk(t) ==
    /\ th[t].pc = "del_ref"
    /\ ~(from_le_bytes(Unwrap(th[t].ref)) > 1)
    /\ Write(th[t].b, chunk_key(Head(th[t].todo)), None)
    /\ th' = [th EXCEPT ![t].pc = "del_rmref"]
    /\ UNCHANGED <<ret, expect, replaced, otherVars>>

\* (variant: the count of a removed blob is left behind)
delete_ref_kept(t) ==
    /\ th[t].pc = "del_rmref"
    /\ NoWrite
    /\ th' = [th EXCEPT ![t] = NextHash(@)]
    /\ UNCHANGED <<ret, expect, replaced, otherVars>>

\* delete: last reference, remove(ref_key)
delete_ref(t) ==
    /\ th[t].pc = "del_rmref"
    /\ Write(th[t].b, chunk_ref_key(Head(th[t].todo)), None)
    /\ th' = [th EXCEPT ![t] = NextHash(@)]
    /\ UNCHANGED <<ret, expect, replaced, otherVars>>

\* where a call returns to: its caller, or the loop of the batch it is a
\* slot of, which records Success for it
Resume(r) ==
    IF r.ops = <<>> THEN Idle
    ELSE [Idle EXCEPT !.pc = "batch", !.op = "batch", !.b = r.b,
                      !.ops = r.ops, !.before = r.before,
                      !.results = Append(r.results, "Success")]

\* the call returns Ok without the barrier
persist_unsynced(t) ==
    /\ th[t].pc = "persist"
    /\ ret' = [ret EXCEPT ![t] =
                 [NoRet EXCEPT !.op = th[t].op, !.b = th[t].b, !.key = th[t].key,
                               !.res = "Ok", !.meta = th[t].out,
                               !.old = th[t].old]]
    /\ expect' = [expect EXCEPT ![th[t].b][th[t].key] =
                    IF th[t].op = "delete" THEN None ELSE Some(th[t].data)]
    /\ th' = [th EXCEPT ![t] = Resume(@)]
    /\ UNCHANGED <<part, durable, journal, replaced, otherVars>>

\* StorageEngine::persist (PersistMode::SyncAll), then the call returns Ok
persist(t) ==
    /\ th[t].pc = "persist"
    /\ durable' = part
    /\ journal' = <<>>
    /\ ret' = [ret EXCEPT ![t] =
                 [NoRet EXCEPT !.op = th[t].op, !.b = th[t].b, !.key = th[t].key,
                               !.res = "Ok", !.meta = th[t].out,
                               !.old = th[t].old]]
    /\ expect' = [expect EXCEPT ![th[t].b][th[t].key] =
                    IF th[t].op = "delete" THEN None ELSE Some(th[t].data)]
    /\ th' = [th EXCEPT ![t] = Resume(@)]
    /\ UNCHANGED <<part, replaced, otherVars>>

\* the journal entries applied in order
RECURSIVE Replay(_, _)
Replay(parts, entries) ==
    IF entries = <<>> THEN parts
    ELSE LET e == Head(entries) IN
         Replay([parts EXCEPT ![e.b] =
                   IF IsSome(e.v) THEN PInsert(@, e.k, Unwrap(e.v))
                   ELSE PRemove(@, e.k)],
                Tail(entries))

\* The process dies in the middle of a call and the data directory is
\* reopened: everything persisted is there, and of the journal written
\* since then some prefix.  A behaviour is followed up to its first crash:
\* the reopened engine takes no further call.
Crash ==
    /\ \E t \in Threads : th[t].pc \notin {"idle", "reopened"}
    /\ \E n \in 0..Len(journal) :
         /\ part' = Replay(durable, SubSeq(journal, 1, n))
         /\ durable' = part'
    /\ journal' = <<>>
    /\ ret' = [t \in Threads |->
                 IF th[t].pc = "idle" THEN NoRet
                 ELSE [NoRet EXCEPT !.op = th[t].op, !.b = th[t].b,
                                    !.key = th[t].key, !.res = "Crashed",
                                    !.old = expect[th[t].b][th[t].key],
                                    !.new = IF th[t].op = "delete" THEN None
                                            ELSE Some(th[t].data)]]
    /\ th' = [t \in Threads |-> [Idle EXCEPT !.pc = "reopened"]]
    /\ UNCHANGED <<expect, replaced, otherVars>>

\* BatchOperation::Put and BatchOperation::Delete
Put(key, data) == [op |-> "Put", key |-> key, data |-> data]

Delete(key) == [op |-> "Delete", key |-> key, data |-> <<>>]

\* Storage::batch: the bucket is opened and the loop over ops starts
batch(t, b, ops) ==
    /\ th[t].pc = "idle"
    /\ th' = [th EXCEPT ![t] =
                [Idle EXCEPT !.pc = "batch", !.op = "batch", !.b = b,
                             !.ops = ops,
                             !.before = [k \in Keys |-> get_object(part[b], k)]]]
    /\ ret' = [ret EXCEPT ![t] = NoRet]
    /\ NoWrite
    /\ UNCHANGED <<expect, replaced, otherVars>>

\* a batch whose Puts skip the size rule
batch_op_unchecked(t) ==
    /\ th[t].pc = "batch"
    /\ Len(th[t].results) < Len(th[t].ops)
    /\ LET r == th[t]
           o == r.ops[Len(r.results) + 1]
           m == get_metadata(part[r.b], o.key)
           sub == [r EXCEPT !.key = o.key, !.old = m] IN
       /\ th' = [th EXCEPT ![t] =
                   IF o.op = "Delete"
                   THEN [sub EXCEPT !.op = "delete",
                                    !.pc = IF IsSome(m) THEN "del_meta"
                                           ELSE "persist"]
                   ELSE [sub EXCEPT !.op = "put_small", !.pc = "ps_meta",
                                    !.data = o.data,
                                    !.out = Some(new_inline(BLen(o.data),
                                                            ContentHash(o.data)))]]
       /\ replaced' = (replaced \/ (o.op = "Put" /\ IsLive(r.b, o.key)))
    /\ ret' = [ret EXCEPT ![t] = NoRet]
    /\ NoWrite
    /\ UNCHANGED <<expect, otherVars>>

\* Storage::batch, one round of its loop: a Put within the size rule is a
\* put_small, a Put over it fills its slot with an Error, a Delete is a
\* delete
batch_op(t) ==
    /\ th[t].pc = "batch"
    /\ Len(th[t].results) < Len(th[t].ops)
    /\ LET r == th[t]
           o == r.ops[Len(r.results) + 1]
           m == get_metadata(part[r.b], o.key)
           sub == [r EXCEPT !.key = o.key, !.old = m] IN
       /\ th' = [th EXCEPT ![t] =
                   IF o.op = "Delete"
                   THEN [sub EXCEPT !.op = "delete",
                                    !.pc = IF IsSome(m) THEN "del_meta"
                                           ELSE "persist"]
                   ELSE IF BLen(o.data) > VALUE_THRESHOLD
                   THEN [r EXCEPT !.results = Append(@, "Error")]
                   ELSE [sub EXCEPT !.op = "put_small", !.pc = "ps_meta",
                                    !.data = o.data,
                                    !.out = Some(new_inline(BLen(o.data),
                                                            ContentHash(o.data)))]]
       /\ replaced' = (replaced \/ (/\ o.op = "Put"
                                    /\ BLen(o.data) <= VALUE_THRESHOLD
                                    /\ IsLive(r.b, o.key)))
    /\ ret' = [ret EXCEPT ![t] = NoRet]
    /\ NoWrite
    /\ UNCHANGED <<expect, otherVars>>

\* Storage::batch returns the BatchResponse
batch_done(t) ==
    /\ th[t].pc = "batch"
    /\ Len(th[t].results) = Len(th[t].ops)
    /\ ret' = [ret EXCEPT ![t] =
                 [NoRet EXCEPT !.op = "batch", !.b = th[t].b, !.res = "Ok",
                               !.ops = th[t].ops, !.results = th[t].results,
                               !.before = th[t].before]]
    /\ th' = [th EXCEPT ![t] = Idle]
    /\ NoWrite
    /\ UNCHANGED <<expect, replaced, otherVars>>

StoreInit ==
    /\ part = [b \in Buckets |-> EmptyPartition]
    /\ durable = [b \in Buckets |-> EmptyPartition]
    /\ journal = <<>>
    /\ th = [t \in Threads |-> Idle]
    /\ ret = [t \in Threads |-> NoRet]
    /\ expect = [b \in Buckets |-> [k \in ListKeys |-> None]]
    /\ replaced = FALSE

\* the steps of the call a caller is in
StoreStep(t) ==
    \/ put_small_meta(t)
    \/ put_small_data(t)
    \/ put_large_lookup(t)
    \/ put_large_incr(t)
    \/ put_large_chunk(t)
    \/ put_large_ref(t)
    \/ put_large_meta(t)
    \/ delete_meta(t)
    \/ delete_data(t)
    \/ delete_lookup(t)
    \/ delete_decr(t)
    \/ delete_chunk(t)
    \/ delete_ref(t)
    \/ persist(t)

\* a caller issues a call
StoreCall(t, b) ==
    \/ \E k \in Keys, d \in ObjectData : put_object(t, b, k, d)
    \/ \E k \in Keys, d \in SmallData : put_small(t, b, k, d)
    \/ \E k \in Keys, d \in SmallData : put_small_too_large(t, b, k, d)
    \/ \E k \in Keys, cs \in ChunkLists : put_large(t, b, k, cs)
    \/ \E k \in Keys : delete(t, b, k)

(***************************************************************************)
(* Time.  u64 seconds are kept modulo U64_MODULUS, a narrow stand-in for   *)
(* 2^64; an addition or subtraction that leaves the range wraps in a build *)
(* without overflow checks and panics in a build with them.                *)
(***************************************************************************)
U64_MODULUS == 65536

StartClock == 1000

\* the instants at which calls are made: 300 s, 301 s and 1 s apart
Instants == {StartClock, StartClock + 300, StartClock + 301}

wrapping_add(a, b) == (a + b) % U64_MODULUS

wrapping_sub(a, b) == (a - b) % U64_MODULUS

\* the clock advances to a later instant
Tick(t) ==
    /\ t > now
    /\ now' = t
    /\ UNCHANGED <<storeVars, netVars, authVars, nonceVars, tokenVars, signVars>>

\* the system clock is set back: SystemTime is not monotonic
SetBack(t) ==
    /\ t < now
    /\ now' = t
    /\ UNCHANGED <<storeVars, netVars, authVars, nonceVars, tokenVars, signVars>>

(***************************************************************************)
(* DelegationRegistry and KeyAuthority.                                    *)
(***************************************************************************)
KeyIds == {"root", "k1", "k2"}

\* the claims of a key packet that the registry looks at: the packets of
\* root and k1 issued by root (KeyPacketClaims::new), and the packet that k1
\* delegates to k2 (KeyPacket::delegate)
Packets ==
    {[sub |-> "root", chain |-> <<"root">>],
     [sub |-> "k1", chain |-> <<"root">>],
     [sub |-> "k2", chain |-> <<"root", "k1">>]}

\* (delegated_key, delegator_key) pairs handed to register_delegation
DelegationPairs ==
    {<<"k1", "root">>, <<"k2", "k1">>, <<"k1", "k2">>}

Reasons == {Some("compromised")}

Retentions == {300, 2000}

cache_ttl == 300

\* Permissions::read_only
read_only ==
    [buckets |-> {}, can_read |-> TRUE, can_write |-> FALSE,
     can_delete |-> FALSE, can_batch |-> FALSE, can_delegate |-> FALSE,
     can_revoke |-> FALSE]

NoAuthRet ==
    [op |-> "none", key |-> "", packet |-> None, res |-> "", rkey |-> "",
     perms |-> None, retention |-> 0]

\* DelegationRegistry::is_revoked
is_revoked(revoked, key_id) == key_id \in revoked

\* DelegationRegistry::validate_delegation_chain
validate_delegation_chain(packet) == "Ok"

\* the first revoked key of the chain, if any
RECURSIVE FirstRevoked(_, _)
FirstRevoked(revoked, chain) ==
    IF chain = <<>> THEN None
    ELSE IF is_revoked(revoked, Head(chain)) THEN Some(Head(chain))
    ELSE FirstRevoked(revoked, Tail(chain))

\* (variant: only the subject is looked up)
validate_key_packet_subject(revoked, packet) ==
    IF is_revoked(revoked, packet.sub)
    THEN [res |-> "KeyRevoked", rkey |-> packet.sub]
    ELSE [res |-> validate_delegation_chain(packet), rkey |-> ""]

\* DelegationRegistry::validate_key_packet
validate_key_packet(revoked, packet) ==
    IF is_revoked(revoked, packet.sub)
    THEN [res |-> "KeyRevoked", rkey |-> packet.sub]
    ELSE LET r == FirstRevoked(revoked, packet.chain) IN
         IF IsSome(r) THEN [res |-> "KeyRevoked", rkey |-> Unwrap(r)]
         ELSE [res |-> validate_delegation_chain(packet), rkey |-> ""]

\* the delegators above a key, following delegation_chains at most n times
RECURSIVE Delegators(_, _, _)
Delegators(chains, key, n) ==
    IF n = 0 \/ key \notin DOMAIN chains THEN {}
    ELSE {chains[key]} \cup Delegators(chains, chains[key], n - 1)

\* the recursion of invalidate_cache_for_key comes back to the key
OnCycle(chains, key) == key \in Delegators(chains, key, Cardinality(KeyIds))

\* DelegationRegistry::invalidate_cache_for_key, its loop over the keys
\* delegated from the key included
RECURSIVE invalidate_cache_for_key(_, _, _)
RECURSIVE InvalidateEach(_, _, _)
invalidate_cache_for_key(cache, chains, key_id) ==
    InvalidateEach(PRemove(cache, key_id), chains,
                   {d \in DOMAIN chains : chains[d] = key_id})

InvalidateEach(cache, chains, delegated_keys) ==
    IF delegated_keys = {} THEN cache
    ELSE LET d == CHOOSE x \in delegated_keys : TRUE IN
         InvalidateEach(invalidate_cache_for_key(cache, chains, d), chains,
                        delegated_keys \ {d})

\* RevocationEntry::new
RevocationEntry(key_id, revoked_by, reason) ==
    [key_id |-> key_id, revoked_at |-> now, revoked_by |-> revoked_by,
     reason |-> reason]

\* KeyAuthority::revoke_key -> DelegationRegistry::revoke_key, Ok
revoke_key(key_id, reason) ==
    /\ alive
    /\ key_id \notin revoked_keys
    /\ ~OnCycle(delegation_chains, key_id)
    /\ revocation_history' =
         Append(revocation_history, RevocationEntry(key_id, "root", reason))
    /\ revoked_keys' = revoked_keys \cup {key_id}
    /\ permission_cache' =
         invalidate_cache_for_key(permission_cache, delegation_chains, key_id)
    /\ authRet' = [NoAuthRet EXCEPT !.op = "revoke_key", !.key = key_id, !.res = "Ok"]
    /\ everRevoked' = everRevoked \cup {key_id}
    /\ UNCHANGED <<alive, delegation_chains, now, storeVars, netVars, nonceVars,
                   tokenVars, signVars>>

\* revoke_key that records the revocation before it looks at the revoked set
revoke_key_again_recorded(key_id, reason) ==
    /\ alive
    /\ key_id \in revoked_keys
    /\ revocation_history' =
         Append(revocation_history, RevocationEntry(key_id, "root", reason))
    /\ authRet' = [NoAuthRet EXCEPT !.op = "revoke_key", !.key = key_id,
                                   !.res = "AuthorizationFailed"]
    /\ UNCHANGED <<alive, revoked_keys, delegation_chains,
                   permission_cache, everRevoked, now, storeVars, netVars, nonceVars,
                   tokenVars, signVars>>

\* revoke_key of a revoked key: AuthorizationFailed("key already revoked")
revoke_key_again(key_id, reason) ==
    /\ alive
    /\ key_id \in revoked_keys
    /\ authRet' = [NoAuthRet EXCEPT !.op = "revoke_key", !.key = key_id,
                                   !.res = "AuthorizationFailed"]
    /\ UNCHANGED <<alive, revoked_keys, revocation_history, delegation_chains,
                   permission_cache, everRevoked, now, storeVars, netVars, nonceVars,
                   tokenVars, signVars>>

\* revoke_key of a key that is its own delegator, directly or not:
\* invalidate_cache_for_key recurses until the stack is exhausted and the
\* process is aborted
revoke_key_overflow(key_id, reason) ==
    /\ alive
    /\ key_id \notin revoked_keys
    /\ OnCycle(delegation_chains, key_id)
    /\ alive' = FALSE
    /\ authRet' = [NoAuthRet EXCEPT !.op = "revoke_key", !.key = key_id,
                                   !.res = "StackOverflow"]
    /\ UNCHANGED <<revoked_keys, revocation_history, delegation_chains,
                   permission_cache, everRevoked, now, storeVars, netVars, nonceVars,
                   tokenVars, signVars>>

\* DelegationRegistry::register_delegation
register_delegation(delegated_key, delegator_key) ==
    /\ alive
    /\ delegation_chains' = PInsert(delegation_chains, delegated_key, delegator_key)
    /\ authRet' = [NoAuthRet EXCEPT !.op = "register_delegation",
                                   !.key = delegated_key, !.res = "Ok"]
    /\ UNCHANGED <<alive, revoked_keys, revocation_history, permission_cache,
                   everRevoked, now, storeVars, netVars, nonceVars,
                   tokenVars, signVars>>

\* KeyAuthority::authorize_request
authorize_request(packet) ==
    /\ alive
    /\ LET r == validate_key_packet(revoked_keys, packet) IN
       authRet' = [NoAuthRet EXCEPT !.op = "authorize_request",
                                    !.packet = Some(packet),
                                    !.res = r.res, !.rkey = r.rkey]
    /\ UNCHANGED <<alive, revoked_keys, revocation_history, delegation_chains,
                   permission_cache, everRevoked, now, storeVars, netVars, nonceVars,
                   tokenVars, signVars>>

\* DelegationRegistry::get_effective_permissions; now - cache_time wraps
\* when the entry was cached at a later reading of the clock
get_effective_permissions(key_id) ==
    /\ alive
    /\ LET c == PGet(permission_cache, key_id)
           hit == /\ IsSome(c)
                  /\ wrapping_sub(now, Unwrap(c).cache_time) < cache_ttl IN
       IF hit
       THEN /\ authRet' = [NoAuthRet EXCEPT !.op = "get_effective_permissions",
                                            !.key = key_id, !.res = "Some",
                                            !.perms = Some(Unwrap(c).perms)]
            /\ UNCHANGED permission_cache
       ELSE /\ authRet' = [NoAuthRet EXCEPT !.op = "get_effective_permissions",
                                            !.key = key_id, !.res = "None"]
            /\ permission_cache' =
                 IF is_revoked(revoked_keys, key_id)
                 THEN PInsert(permission_cache, key_id,
                              [perms |-> read_only, cache_time |-> now])
                 ELSE permission_cache
    /\ UNCHANGED <<alive, revoked_keys, revocation_history, delegation_chains,
                   everRevoked, now, storeVars, netVars, nonceVars,
                   tokenVars, signVars>>

\* the same with overflow checks, for an entry cached at a later reading of
\* the clock: "attempt to subtract with overflow"
get_effective_permissions_panic(key_id) ==
    /\ alive
    /\ IsSome(PGet(permission_cache, key_id))
    /\ Unwrap(PGet(permission_cache, key_id)).cache_time > now
    /\ authRet' = [NoAuthRet EXCEPT !.op = "get_effective_permissions",
                                   !.key = key_id, !.res = "Panic"]
    /\ UNCHANGED <<alive, revoked_keys, revocation_history, delegation_chains,
                   permission_cache, everRevoked, now, storeVars, netVars,
                   nonceVars, tokenVars, signVars>>

\* Vec::retain
RECURSIVE Retain(_, _)
Retain(history, cutoff) ==
    IF history = <<>> THEN <<>>
    ELSE IF Head(history).revoked_at >= cutoff
         THEN <<Head(history)>> \o Retain(Tail(history), cutoff)
         ELSE Retain(Tail(history), cutoff)

\* DelegationRegistry::cleanup_old_revocations; now - retention wraps when
\* the retention period is longer than the time since the epoch
cleanup_old_revocations(retention_period) ==
    /\ alive
    /\ revocation_history' =
         Retain(revocation_history, wrapping_sub(now, retention_period))
    /\ authRet' = [NoAuthRet EXCEPT !.op = "cleanup_old_revocations",
                                   !.res = "Ok",
                                   !.retention = retention_period]
    /\ UNCHANGED <<alive, revoked_keys, delegation_chains, permission_cache,
                   everRevoked, now, storeVars, netVars, nonceVars,
                   tokenVars, signVars>>

\* the same with overflow checks: "attempt to subtract with overflow"
cleanup_old_revocations_panic(retention_period) ==
    /\ alive
    /\ retention_period > now
    /\ authRet' = [NoAuthRet EXCEPT !.op = "cleanup_old_revocations",
                                   !.res = "Panic",
                                   !.retention = retention_period]
    /\ UNCHANGED <<alive, revoked_keys, revocation_history, delegation_chains,
                   permission_cache, everRevoked, now, storeVars, netVars, nonceVars,
                   tokenVars, signVars>>

AuthInit ==
    /\ now = StartClock
    /\ alive = TRUE
    /\ revoked_keys = {}
    /\ revocation_history = <<>>
    /\ delegation_chains = EmptyPartition
    /\ permission_cache = EmptyPartition
    /\ authRet = NoAuthRet
    /\ everRevoked = {}

(***************************************************************************)
(* Key packets (KeyPacket, Permissions).  A token is the packet's claims   *)
(* with its issued_at and expires_at; parent is the index in tokens of the *)
(* packet it was delegated from, 0 for a packet issued by the authority.   *)
(***************************************************************************)
MaxTokens == 3

\* Permissions::all
all ==
    [buckets |-> {}, can_read |-> TRUE, can_write |-> TRUE,
     can_delete |-> TRUE, can_batch |-> TRUE, can_delegate |-> TRUE,
     can_revoke |-> TRUE]

\* Permissions::read_write
read_write ==
    [buckets |-> {}, can_read |-> TRUE, can_write |-> TRUE,
     can_delete |-> FALSE, can_batch |-> FALSE, can_delegate |-> FALSE,
     can_revoke |-> FALSE]

\* Permissions::for_buckets
for_buckets(buckets) ==
    [buckets |-> buckets, can_read |-> TRUE, can_write |-> TRUE,
     can_delete |-> TRUE, can_batch |-> TRUE, can_delegate |-> FALSE,
     can_revoke |-> FALSE]

\* the permissions handed to create_key_packet and to delegate
IssuedPerms == {all, [all EXCEPT !.buckets = {"b1"}]}

PermSets ==
    IssuedPerms \cup
    {read_only, read_write, for_buckets({"b1"}), for_buckets({"b1", "b2"})}

Validities == {0, 300}

Operations == {"Read", "Write", "Delete", "Batch", "Delegate", "Revoke"}

\* the buckets asked about: those of the store and one more
AllBuckets == Buckets \cup {"b3"}

NoTokRet ==
    [op |-> "none", res |-> "", parent |-> 0, permissions |-> read_only,
     len |-> 0, other |-> read_only, out |-> read_only]

\* Permissions::allows_bucket
allows_bucket(perms, bucket) == perms.buckets = {} \/ bucket \in perms.buckets

\* Permissions::is_subset_of without its second branch
is_subset_of_unrestricted(self, other) ==
    /\ other.buckets = {} \/ self.buckets \subseteq other.buckets
    /\ ~self.can_read \/ other.can_read
    /\ ~self.can_write \/ other.can_write
    /\ ~self.can_delete \/ other.can_delete
    /\ ~self.can_batch \/ other.can_batch
    /\ ~self.can_delegate \/ other.can_delegate
    /\ ~self.can_revoke \/ other.can_revoke

\* Permissions::is_subset_of
is_subset_of(self, other) ==
    LET bucket_check ==
            IF other.buckets = {} THEN TRUE
            ELSE IF self.buckets = {} THEN FALSE
            ELSE self.buckets \subseteq other.buckets
    IN  /\ bucket_check
        /\ ~self.can_read \/ other.can_read
        /\ ~self.can_write \/ other.can_write
        /\ ~self.can_delete \/ other.can_delete
        /\ ~self.can_batch \/ other.can_batch
        /\ ~self.can_delegate \/ other.can_delegate
        /\ ~self.can_revoke \/ other.can_revoke

\* Permissions::intersect
intersect(self, other) ==
    [buckets |-> IF self.buckets = {} THEN other.buckets
                 ELSE IF other.buckets = {} THEN self.buckets
                 ELSE self.buckets \cap other.buckets,
     can_read |-> self.can_read /\ other.can_read,
     can_write |-> self.can_write /\ other.can_write,
     can_delete |-> self.can_delete /\ other.can_delete,
     can_batch |-> self.can_batch /\ other.can_batch,
     can_delegate |-> self.can_delegate /\ other.can_delegate,
     can_revoke |-> self.can_revoke /\ other.can_revoke]

\* the permission sets that are intersected
Intersected ==
    PermSets \cup
    {for_buckets({"b2"}), for_buckets({"b2", "b3"}),
     [all EXCEPT !.buckets = {"b2"}], [read_only EXCEPT !.buckets = {"b1"}],
     [read_only EXCEPT !.buckets = {"b3"}]}

\* a call of self.intersect(other)
permissions_intersect(self, other) ==
    /\ tokRet' = [NoTokRet EXCEPT !.op = "intersect", !.permissions = self,
                                  !.other = other,
                                  !.out = intersect(self, other)]
    /\ UNCHANGED tokens
    /\ UNCHANGED <<now, storeVars, netVars, authVars, nonceVars, signVars>>

\* KeyPacket::create: the packet of the claims, stamped with the clock
create(sub, iss, permissions, chain, validity, parent, t) ==
    [sub |-> sub, iss |-> iss, permissions |-> permissions,
     delegation_chain |-> chain, issued_at |-> Some(t),
     expires_at |-> Some(wrapping_add(t, validity)), parent |-> parent]

\* KeyPacket::is_valid with the expiry instant included
is_valid_inclusive(tok, t) ==
    IF tok.issued_at # None /\ tok.expires_at # None
    THEN t >= tok.issued_at[1] /\ t <= tok.expires_at[1]
    ELSE FALSE

\* KeyPacket::is_valid
is_valid(tok, t) ==
    IF tok.issued_at # None /\ tok.expires_at # None
    THEN t >= tok.issued_at[1] /\ t < tok.expires_at[1]
    ELSE FALSE

\* KeyPacket::allows_operation
allows_operation(tok, bucket, operation, t) ==
    IF ~is_valid(tok, t) THEN FALSE
    ELSE IF ~allows_bucket(tok.permissions, bucket) THEN FALSE
    ELSE CASE operation = "Read" -> tok.permissions.can_read
           [] operation = "Write" -> tok.permissions.can_write
           [] operation = "Delete" -> tok.permissions.can_delete
           [] operation = "Batch" -> tok.permissions.can_batch
           [] operation = "Delegate" -> tok.permissions.can_delegate
           [] operation = "Revoke" -> tok.permissions.can_revoke

\* KeyAuthority::create_key_packet for subject k1, issued by the root key:
\* KeyPacketClaims::new, then KeyPacket::create
create_key_packet(permissions, validity) ==
    /\ Len(tokens) < MaxTokens
    /\ tokens' = Append(tokens, create("k1", "root", permissions, <<"root">>,
                                       validity, 0, now))
    /\ tokRet' = NoTokRet
    /\ UNCHANGED <<now, storeVars, netVars, authVars, nonceVars, signVars>>

\* delegate with its two checks in the other order
delegate_subset_first(i, restricted_permissions, validity, delegating_key) ==
    LET self == tokens[i]
        res == IF ~is_subset_of(restricted_permissions, self.permissions)
               THEN "AuthorizationFailed"
               ELSE IF ~self.permissions.can_delegate
                    THEN "InsufficientPermissions"
                    ELSE "Ok"
    IN  /\ res = "Ok" => Len(tokens) < MaxTokens
        /\ tokRet' = [NoTokRet EXCEPT !.op = "delegate", !.res = res,
                                      !.parent = i,
                                      !.permissions = restricted_permissions,
                                      !.len = Len(tokens)]
        /\ tokens' = IF res = "Ok"
                     THEN Append(tokens,
                                 create("k2", delegating_key,
                                        restricted_permissions,
                                        Append(self.delegation_chain,
                                               delegating_key),
                                        validity, i, now))
                     ELSE tokens
        /\ UNCHANGED <<now, storeVars, netVars, authVars, nonceVars, signVars>>

\* tokens[i].delegate(k2, restricted_permissions, validity, delegating_key);
\* the key pair is the caller's to choose and is not compared with the subject
\* of the packet
delegate(i, restricted_permissions, validity, delegating_key) ==
    LET self == tokens[i]
        res == IF ~self.permissions.can_delegate
               THEN "InsufficientPermissions"
               ELSE IF ~is_subset_of(restricted_permissions, self.permissions)
                    THEN "AuthorizationFailed"
                    ELSE "Ok"
    IN  /\ res = "Ok" => Len(tokens) < MaxTokens
        /\ tokRet' = [NoTokRet EXCEPT !.op = "delegate", !.res = res,
                                      !.parent = i,
                                      !.permissions = restricted_permissions,
                                      !.len = Len(tokens)]
        /\ tokens' = IF res = "Ok"
                     THEN Append(tokens,
                                 create("k2", delegating_key,
                                        restricted_permissions,
                                        Append(self.delegation_chain,
                                               delegating_key),
                                        validity, i, now))
                     ELSE tokens
        /\ UNCHANGED <<now, storeVars, netVars, authVars, nonceVars, signVars>>

TokenInit ==
    /\ tokens = <<>>
    /\ tokRet = NoTokRet

(***************************************************************************)
(* Canonical requests and their signatures.  A String is the sequence of   *)
(* its characters; the hex digest of a payload is kept as one element.     *)
(* Ed25519 is taken as ideal: a signature verifies under a public key for  *)
(* a message iff the matching signing key made it for that message.        *)
(***************************************************************************)
KeyPairs == {"K1", "K2"}

\* KeyPair::public_key
public_key(keypair) == [verifying_key |-> keypair]

\* PublicKey::key_id, KeyPair::key_id -> KeyId::from_verifying_key
key_id(public) == [blake3_16 |-> public.verifying_key]

\* KeyPair::sign
KeyPair_sign(keypair, message) == [signing_key |-> keypair, message |-> message]

\* PublicKey::verify
PublicKey_verify(public, message, signature) ==
    IF signature.signing_key = public.verifying_key
       /\ signature.message = message
    THEN "Ok"
    ELSE "InvalidSignature"

\* HttpMethod::fmt
Methods == {<<"G", "E", "T">>, <<"P", "U", "T">>}

BucketIds == {<<"b", "1">>, <<"b", "2">>}

RequestKeys ==
    {None, Some(<<"a", "/", "b">>), Some(<<"a", "%", "2", "F", "b">>)}

Payloads == {None, Some(DSmall)}

\* SystemTime values: whole seconds and the nanoseconds within the second
SystemTimes ==
    {[secs |-> 100, nanos |-> 0], [secs |-> 100, nanos |-> 5],
     [secs |-> 1001, nanos |-> 0]}

NonceStrings == {<<"n">>, <<"1", "n">>}

\* the bytes uri_encode leaves alone, among the characters in use
Unreserved == {"a", "b", "n", "F", "0", "1", "2", "5", "-", ".", "_", "~"}

\* format!("%{:02X}", byte)
PercentEncoded(c) ==
    CASE c = "/" -> <<"%", "2", "F">>
      [] c = "%" -> <<"%", "2", "5">>
      [] c = "\n" -> <<"%", "0", "A">>

\* uri_encode that does not escape the escape character
RECURSIVE uri_encode_percent_kept(_)
uri_encode_percent_kept(input) ==
    IF input = <<>> THEN <<>>
    ELSE (IF Head(input) \in Unreserved \cup {"%"} THEN <<Head(input)>>
          ELSE PercentEncoded(Head(input)))
         \o uri_encode_percent_kept(Tail(input))

\* uri_encode
RECURSIVE uri_encode(_)
uri_encode(input) ==
    IF input = <<>> THEN <<>>
    ELSE (IF Head(input) \in Unreserved THEN <<Head(input)>>
          ELSE PercentEncoded(Head(input)))
         \o uri_encode(Tail(input))

\* format!("{}", u64): the decimal digits
RECURSIVE Decimal(_)
Decimal(n) ==
    LET digit == <<"0", "1", "2", "3", "4", "5", "6", "7", "8", "9">> IN
    IF n < 10 THEN <<digit[n + 1]>>
    ELSE Decimal(n \div 10) \o <<digit[(n % 10) + 1]>>

\* hex::encode of a digest: 64 hex digits, kept as one element that names
\* the digest
hex_encode(hash) ==
    CASE hash = ContentHash(<<>>) -> <<"hex(blake3())">>
      [] hash = ContentHash(DSmall) -> <<"hex(blake3(01 01 02))">>

\* CanonicalRequest::new, then with_timestamp and with_nonce
CanonicalRequest(method, bucket, key, payload, timestamp, nonce) ==
    [method |-> method, bucket |-> bucket, key |-> key,
     query_params |-> <<>>, headers |-> <<>>,
     payload_hash |-> IF payload # None
                      THEN hex_encode(ContentHash(payload[1]))
                      ELSE <<"UNSIGNED-PAYLOAD">>,
     timestamp |-> timestamp, nonce |-> nonce]

\* CanonicalRequest::timestamp_secs
timestamp_secs(self) == self.timestamp.secs

\* CanonicalRequest::to_canonical_string; query_params and headers are
\* empty, and so are the three strings joined from them
to_canonical_string(self) ==
    self.method \o <<"\n">>
    \o <<"/", "v", "1", "/">> \o self.bucket
    \o (IF self.key # None THEN <<"/">> \o uri_encode(self.key[1]) ELSE <<>>)
    \o <<"\n">>
    \o <<>> \o <<"\n">>
    \o <<>> \o <<"\n">>
    \o <<>> \o <<"\n">>
    \o self.payload_hash \o <<"\n">>
    \o Decimal(timestamp_secs(self)) \o <<"\n">>
    \o self.nonce

\* CanonicalRequest::sign
CanonicalRequest_sign(self, keypair) ==
    [canonical_request |-> self,
     signature |-> KeyPair_sign(keypair, to_canonical_string(self)),
     signer_key_id |-> key_id(public_key(keypair))]

\* SignedRequest::verify
SignedRequest_verify(self, public) ==
    IF key_id(public) # self.signer_key_id
    THEN "AuthenticationFailed"
    ELSE PublicKey_verify(public, to_canonical_string(self.canonical_request),
                          self.signature)

\* the requests a client signs
ClientRequests ==
    {CanonicalRequest(<<"P", "U", "T">>, <<"b", "1">>, k, Some(DSmall), ts, n) :
        k \in {None, Some(<<"a", "/", "b">>)},
        ts \in SystemTimes \ {[secs |-> 100, nanos |-> 5]},
        n \in NonceStrings}

\* the requests that are presented with a signature
Requests ==
    {CanonicalRequest(m, b, k, p, ts, n) :
        m \in Methods, b \in BucketIds, k \in RequestKeys, p \in Payloads,
        ts \in SystemTimes, n \in NonceStrings}

NoVerifyRet ==
    [op |-> "none", request |-> None, public_key |-> None, res |-> "",
     before |-> EmptyPartition]

\* request.sign(keypair); signer is the keypair that signed
sign(request, keypair) ==
    /\ signedReq' = Some([signed |-> CanonicalRequest_sign(request, keypair),
                          signer |-> keypair])
    /\ verifyRet' = NoVerifyRet
    /\ UNCHANGED <<now, storeVars, netVars, authVars, nonceVars, tokenVars>>

\* SignedRequest{request, the signature made by sign, signer_key_id}
\*     .verify(public)
verify(request, signer_key_id, public) ==
    /\ signedReq # None
    /\ LET presented == [canonical_request |-> request,
                         signature |-> signedReq[1].signed.signature,
                         signer_key_id |-> signer_key_id]
       IN  verifyRet' = [NoVerifyRet EXCEPT
                            !.op = "verify", !.request = Some(presented),
                            !.public_key = Some(public),
                            !.res = SignedRequest_verify(presented, public)]
    /\ UNCHANGED <<signedReq, now, storeVars, netVars, authVars, nonceVars, tokenVars>>

SignInit ==
    /\ signedReq = None
    /\ verifyRet = NoVerifyRet

(***************************************************************************)
(* Versions.  A Version is a ULID: the milliseconds of the system clock in *)
(* its upper 48 bits, 80 random bits below them, ordered as one 128-bit    *)
(* number.  The random part is kept in 0..RANDOM_SPACE-1, a narrow         *)
(* stand-in for 2^80.                                                      *)
(***************************************************************************)
RANDOM_SPACE == 3

MaxVersions == 3

\* the millisecond readings within one second that the model tells apart
SubMillis == {0, 1}

\* ulid::Ulid::from_parts
Ulid(timestamp_ms, random) == [timestamp_ms |-> timestamp_ms, random |-> random]

\* Ord for Version: the derived order of the u128 inside the Ulid
VersionLess(a, b) ==
    \/ a.timestamp_ms < b.timestamp_ms
    \/ a.timestamp_ms = b.timestamp_ms /\ a.random < b.random

\* Version::new: Ulid::new() reads the clock and draws the random part
\* afresh; the clock of the host is taken never to step back
Version_new(sub_ms, random) ==
    /\ Len(versions) < MaxVersions
    /\ LET v == Ulid(now * 1000 + sub_ms, random) IN
       /\ versions # <<>> =>
              versions[Len(versions)].timestamp_ms <= v.timestamp_ms
       /\ versions' = Append(versions, v)
    /\ UNCHANGED <<frame, wire, parsed, pending>>
    /\ UNCHANGED <<now, storeVars, authVars, nonceVars, tokenVars, signVars>>

(***************************************************************************)
(* Wire frames.  usize has 64 bits.                                        *)
(***************************************************************************)
MAX_HEADER_SIZE == 65536

\* bytes[i]
RECURSIVE ByteAt(_, _)
ByteAt(s, i) ==
    IF i < Head(s).n THEN Head(s).b ELSE ByteAt(Tail(s), i - Head(s).n)

\* a [u8; N] as a byte string
FromArray(v) == BCatAll([i \in 1..Len(v) |-> <<Run(v[i], 1)>>])

\* WireFrame::new
WireFrame(header, body) == [header |-> header, body |-> body]

\* a frame with its header length written big-endian
WireFrame_to_bytes_be(f) ==
    LET header_len == to_le_bytes(BLen(f.header)) IN
    BCat(BCat(FromArray(<<header_len[4], header_len[3], header_len[2],
                          header_len[1]>>),
              f.header),
         f.body)

\* WireFrame::to_bytes; header.len() as u32 keeps the low 32 bits
WireFrame_to_bytes(f) ==
    BCat(BCat(FromArray(to_le_bytes(BLen(f.header))), f.header), f.body)

\* WireFrame::from_bytes
WireFrame_from_bytes(bytes) ==
    IF BLen(bytes) < 4 THEN Err("Frame too short")
    ELSE LET header_len == from_le_bytes(<<ByteAt(bytes, 0), ByteAt(bytes, 1),
                                           ByteAt(bytes, 2), ByteAt(bytes, 3)>>) IN
         IF BLen(bytes) < 4 + header_len THEN Err("Incomplete frame")
         ELSE Ok(WireFrame(BTake(BDrop(bytes, 4), header_len),
                           BDrop(bytes, 4 + header_len)))

Headers ==
    {<<>>, Rep(7, 1), <<Run(0, 2), Run(1, 3)>>, Rep(120, 300),
     Rep(120, MAX_HEADER_SIZE),
     Rep(120, MAX_HEADER_SIZE + 1)}

Bodies == {<<>>, Rep(0, 1), Rep(120, 2), <<Run(1, 1), Run(0, 4), Run(9, 2)>>}

\* lengths at which a frame is cut short on the wire
Cuts == {0, 3, 4, 5, 8, 303, MAX_HEADER_SIZE + 3, MAX_HEADER_SIZE + 4}

NotParsed == [res |-> "", val |-> None, err |-> ""]

\* a frame is made and serialized
to_bytes(header, body) ==
    /\ frame' = Some(WireFrame(header, body))
    /\ wire' = WireFrame_to_bytes(WireFrame(header, body))
    /\ parsed' = NotParsed
    /\ UNCHANGED <<versions, pending>>
    /\ UNCHANGED <<now, storeVars, authVars, nonceVars, tokenVars, signVars>>

\* only the first n bytes arrive
cut(n) ==
    /\ n < BLen(wire)
    /\ wire' = BTake(wire, n)
    /\ frame' = None
    /\ parsed' = NotParsed
    /\ UNCHANGED <<versions, pending>>
    /\ UNCHANGED <<now, storeVars, authVars, nonceVars, tokenVars, signVars>>

\* the bytes on the wire are parsed
from_bytes ==
    /\ parsed' = WireFrame_from_bytes(wire)
    /\ UNCHANGED <<versions, frame, wire, pending>>
    /\ UNCHANGED <<now, storeVars, authVars, nonceVars, tokenVars, signVars>>

\* serde_json::Value: a string, a number, an array or null
JString(s) == [type |-> "string", str |-> s, num |-> 0, arr |-> <<>>]
JNumber(n) == [type |-> "number", str |-> "", num |-> n, arr |-> <<>>]
JArray(a) == [type |-> "array", str |-> "", num |-> 0, arr |-> a]
JNull == [type |-> "null", str |-> "", num |-> 0, arr |-> <<>>]

\* the header of a Put as RequestMessage::to_bytes writes it, with a field
\* of an older schema
FullHeader ==
    [request_id |-> JString("r1"), bucket |-> JString("b1"),
     key |-> JString("k"), request_type |-> JString("Put"),
     timestamp |-> JNumber(1000), nonce |-> JString("n1"),
     content_length |-> JNumber(3),
     content_hash |-> JArray(<<JNumber(1), JNumber(2), JNumber(3)>>),
     deprecated_field |-> JString("old_value")]

RequiredFields ==
    {"request_id", "bucket", "key", "request_type", "timestamp", "nonce"}

\* the same header with fields of another JSON type
Mistyped ==
    {[FullHeader EXCEPT !.timestamp = JString("1000")],
     [FullHeader EXCEPT !.request_id = JNumber(5),
                        !.content_length = JString("3")],
     [FullHeader EXCEPT !.timestamp = JNumber(-1)],
     [FullHeader EXCEPT !.request_type = JNumber(1)],
     [FullHeader EXCEPT !.content_hash = JNull],
     [FullHeader EXCEPT !.content_hash = JString("010203")],
     [FullHeader EXCEPT !.content_hash = JArray(<<JNumber(258), JString("x"),
                                                  JNumber(-1)>>)]}

\* the same header with some of its fields left out, and the mistyped ones
Documents ==
    {[f \in fields |-> FullHeader[f]] : fields \in SUBSET DOMAIN FullHeader}
        \cup Mistyped

\* json[field]: Null for a field the object does not have
Index(json, field) == IF field \in DOMAIN json THEN json[field] ELSE JNull

\* Value::as_str
as_str(v) == IF v.type = "string" THEN Some(v.str) ELSE None

\* Value::as_u64
as_u64(v) == IF v.type = "number" /\ v.num >= 0 THEN Some(v.num) ELSE None

\* Value::as_array
as_array(v) == IF v.type = "array" THEN Some(v.arr) ELSE None

\* Option::unwrap_or
unwrap_or(o, default) == IF IsSome(o) THEN Unwrap(o) ELSE default

\* RequestMessage::from_bytes of the bytes of a JSON object
RequestMessage_from_bytes(json) ==
    LET request_type == unwrap_or(as_str(Index(json, "request_type")), "")
        content_hash == as_array(Index(json, "content_hash")) IN
    IF request_type \notin {"Get", "Put", "Delete", "Scan", "Batch"}
    THEN Err("Invalid request type")
    ELSE Ok([request_id |-> unwrap_or(as_str(Index(json, "request_id")), ""),
             bucket |-> unwrap_or(as_str(Index(json, "bucket")), ""),
             key |-> unwrap_or(as_str(Index(json, "key")), ""),
             request_type |-> request_type,
             timestamp |-> unwrap_or(as_u64(Index(json, "timestamp")), 0),
             nonce |-> unwrap_or(as_str(Index(json, "nonce")), ""),
             content_length |->
                 unwrap_or(as_u64(Index(json, "content_length")), 0),
             content_hash |->
                 IF IsSome(content_hash)
                 THEN Some([i \in 1..Len(Unwrap(content_hash)) |->
                              unwrap_or(as_u64(Unwrap(content_hash)[i]), 0) % 256])
                 ELSE None])

\* a header arrives and is parsed; wire holds its JSON object
request_from_bytes(json) ==
    /\ wire' = json
    /\ parsed' = RequestMessage_from_bytes(json)
    /\ frame' = None
    /\ UNCHANGED <<versions, pending>>
    /\ UNCHANGED <<now, storeVars, authVars, nonceVars, tokenVars, signVars>>

MaxFrames == 2

\* WireCodec::write_frame on a stream that takes MaxFrames frames
write_frame(header, body) ==
    /\ Len(pending) < MaxFrames
    /\ wire' = BCat(wire, WireFrame_to_bytes(WireFrame(header, body)))
    /\ pending' = Append(pending, WireFrame(header, body))
    /\ frame' = None
    /\ parsed' = NotParsed
    /\ UNCHANGED versions
    /\ UNCHANGED <<now, storeVars, authVars, nonceVars, tokenVars, signVars>>

\* WireCodec::read_frame, what it returns and what it leaves in the stream:
\* read_exact of the length, read_exact of the header, read_to_end
WireCodec_read_frame(stream) ==
    IF BLen(stream) < 4
    THEN [out |-> Err("UnexpectedEof"), rest |-> <<>>]
    ELSE LET header_len == from_le_bytes(<<ByteAt(stream, 0), ByteAt(stream, 1),
                                           ByteAt(stream, 2), ByteAt(stream, 3)>>) IN
         IF BLen(stream) < 4 + header_len
         THEN [out |-> Err("UnexpectedEof"), rest |-> <<>>]
         ELSE [out |-> Ok(WireFrame(BTake(BDrop(stream, 4), header_len),
                                    BDrop(stream, 4 + header_len))),
               rest |-> <<>>]

\* WireCodec::read_frame on the stream, once its writer is done; frame is
\* the frame that was written first of those not yet read
read_frame ==
    /\ parsed' = WireCodec_read_frame(wire).out
    /\ wire' = WireCodec_read_frame(wire).rest
    /\ frame' = IF pending = <<>> THEN None ELSE Some(Head(pending))
    /\ pending' = IF pending = <<>> THEN <<>> ELSE Tail(pending)
    /\ UNCHANGED versions
    /\ UNCHANGED <<now, storeVars, authVars, nonceVars, tokenVars, signVars>>

NetInit ==
    /\ pending = <<>>
    /\ versions = <<>>
    /\ frame = None
    /\ wire = <<>>
    /\ parsed = NotParsed

(***************************************************************************)
(* NonceCache.                                                             *)
(***************************************************************************)
window_seconds == 300

Nonces == {"n1", "n2"}

\* timestamps of requests, as a distance from the clock
Offsets == {-301, -300, 0, 300, 301}

U64_MAX == U64_MODULUS - 1

NoNonceRet == [op |-> "none", nonce |-> "", timestamp |-> 0, at |-> 0, res |-> ""]

\* NonceCache::cleanup_old_nonces
cleanup_old_nonces(cache, t) ==
    [n \in {x \in DOMAIN cache : wrapping_add(cache[x], window_seconds) >= t}
       |-> cache[n]]

\* NonceCache::check_nonce, the result of the two checks
check_nonce_result(cache, nonce, timestamp, t) ==
    IF \/ wrapping_add(timestamp, window_seconds) < t
       \/ timestamp > wrapping_add(t, window_seconds)
    THEN "ReplayAttack"
    ELSE IF /\ nonce \in DOMAIN cache
            /\ wrapping_add(cache[nonce], window_seconds) >= t
         THEN "ReplayAttack"
         ELSE "Ok"

\* NonceCache::check_nonce
check_nonce(nonce, timestamp) ==
    LET r == check_nonce_result(nonces, nonce, timestamp, now) IN
    /\ nonceRet' = [op |-> "check_nonce", nonce |-> nonce,
                    timestamp |-> timestamp, at |-> now, res |-> r]
    /\ nonces' = IF r = "Ok"
                 THEN cleanup_old_nonces(PInsert(nonces, nonce, timestamp), now)
                 ELSE nonces
    /\ accepted' = IF r = "Ok"
                   THEN accepted \cup {[nonce |-> nonce, timestamp |-> timestamp,
                                        at |-> now]}
                   ELSE accepted
    /\ UNCHANGED <<now, storeVars, netVars, authVars, tokenVars, signVars>>

\* the same with overflow checks, for a timestamp within window_seconds of
\* u64::MAX: "attempt to add with overflow"
check_nonce_panic(nonce, timestamp) ==
    /\ timestamp + window_seconds >= U64_MODULUS
    /\ nonceRet' = [op |-> "check_nonce", nonce |-> nonce,
                    timestamp |-> timestamp, at |-> now, res |-> "Panic"]
    /\ UNCHANGED <<nonces, accepted, now, storeVars, netVars, authVars, tokenVars,
                   signVars>>

NonceInit ==
    /\ nonces = EmptyPartition
    /\ nonceRet = NoNonceRet
    /\ accepted = {}

(***************************************************************************)
(* Request authentication (AuthContext).                                   *)
(***************************************************************************)
\* the Authorization header: without the "Bearer " prefix, or with a key
\* packet for the subject K1 signed by the key pair issuer
AuthHeaders ==
    {[bearer |-> b, issuer |-> k, sub |-> key_id(public_key("K1"))] :
        b \in BOOLEAN, k \in KeyPairs}

\* the characters of a header value: ASCII ones, and U+00E9 and U+20AC, which
\* take two and three bytes in UTF-8
HexDigits ==
    {"0", "1", "2", "3", "4", "5", "6", "7", "8", "9",
     "a", "b", "c", "d", "e", "f", "A", "B", "C", "D", "E", "F"}

\* char::len_utf8
len_utf8(c) == IF c = "U+00E9" THEN 2 ELSE IF c = "U+20AC" THEN 3 ELSE 1

\* u8::from_str_radix(pair, 16) succeeds: two hex digits, or a plus sign and
\* one hex digit
from_str_radix_ok(c1, c2) == (c1 \in HexDigits \/ c1 = "+") /\ c2 \in HexDigits

\* one turn of the loop of hex::decode, at the character of index k, which
\* starts at an even byte offset: the slice of two bytes panics when it ends
\* past the string or inside a character; it is a number (Next) or not (Err)
hex_decode_step(s, k) ==
    IF len_utf8(s[k]) = 2 THEN "Err"
    ELSE IF len_utf8(s[k]) > 2 THEN "Panic"
    ELSE IF k = Len(s) THEN "Panic"
    ELSE IF len_utf8(s[k + 1]) > 1 THEN "Panic"
    ELSE IF from_str_radix_ok(s[k], s[k + 1]) THEN "Next"
    ELSE "Err"

\* hex::decode: the number of bytes decoded, or the error or the panic of
\* the first turn that does not give a byte (collect stops there)
hex_decode(s) ==
    LET turns == {k \in 1..Len(s) : k % 2 = 1}
        stops == {k \in turns : hex_decode_step(s, k) # "Next"}
        first == CHOOSE k \in stops : \A j \in stops : k <= j
    IN  IF stops = {} THEN [res |-> "Ok", len |-> Len(s) \div 2]
        ELSE [res |-> hex_decode_step(s, first), len |-> 0]

\* n times the character c
Chars(c, n) == [i \in 1..n |-> c]

\* X-Signature values that are not the hex of a signature
OtherSignatures ==
    {<<>>, <<"z", "z">>, <<"z", "z", "a">>, <<"a", "b", "c">>, <<"+", "a">>,
     <<"a", "U+00E9">>, <<"a", "a", "U+00E9">>, <<"U+20AC">>,
     Chars("a", 126), Chars("a", 127), Chars("z", 128)}

\* the X-Signature header: its characters and the signature they spell, if
\* any: one of OtherSignatures, or the 128 hex digits (each written a) of a
\* signature made by some key pair over some request
SignatureHeaders ==
    {[text |-> s, signature |-> KeyPair_sign("K1", <<>>)] : s \in OtherSignatures}
    \cup {[text |-> Chars("a", 128),
           signature |-> KeyPair_sign(k, to_canonical_string(r))] :
            k \in KeyPairs,
            r \in {CanonicalRequest(<<"P", "U", "T">>, <<"b", "1">>, None,
                                    Some(DSmall), [secs |-> t, nanos |-> 0], n) :
                      t \in {StartClock}, n \in NonceStrings}}

\* the largest count of seconds that SystemTime holds: i64::MAX, at the
\* scale of U64_MODULUS
I64_MAX == U64_MODULUS \div 2 - 1

\* the X-Timestamp header: not a number, or the decimal of the seconds
TimestampHeaders ==
    {None, Some(StartClock), Some(I64_MAX + 1), Some(U64_MAX)}

\* the fields of the token's payload: those of JWTClaims that create sets,
\* and those of KeyPacketClaims, flattened into the same object
PayloadFields ==
    {"iat", "exp", "nbf"} \cup {"sub", "iss", "permissions", "delegation_chain"}

\* the fields that JWTClaims reads for itself
RegisteredClaims == {"iss", "sub", "aud", "iat", "exp", "nbf", "jti", "nonce"}

\* the fields that the JWT library hands to the flattened custom claims.
\* The library is not part of the repository and its version is not fixed
\* by it: either the whole payload, as the repository's test
\* auth_jwt_ed25519_roundtrip_ok expects, or the payload without the fields
\* that JWTClaims reads for itself, as a JWTClaims with flattened custom
\* claims gives
CustomFields == {PayloadFields, PayloadFields \ RegisteredClaims}

\* KeyPacket::parse of a token that KeyPacket::create signed with the key
\* pair token.issuer: verify_token checks the signature, then reads the
\* payload as JWTClaims<KeyPacketClaims>; a KeyPacketClaims that is handed
\* no sub or iss is "verification failed: missing field"
KeyPacket_parse(token, verifying_key, custom_fields) ==
    IF public_key(token.issuer) # verifying_key THEN "InvalidKeyPacket"
    ELSE IF ~({"sub", "iss", "permissions", "delegation_chain"}
                 \subseteq custom_fields)
    THEN "InvalidKeyPacket"
    ELSE "Ok"

\* KeyPacket::parse of the token of packet i with the public key of the key
\* verifying_key; the packet it returns has the claims of the token
parse(i, verifying_key, custom_fields) ==
    LET res == KeyPacket_parse([issuer |-> tokens[i].iss],
                               public_key(verifying_key), custom_fields) IN
    /\ res = "Ok" => Len(tokens) < MaxTokens
    /\ tokRet' = [NoTokRet EXCEPT !.op = "parse", !.res = res, !.parent = i,
                                  !.len = Len(tokens)]
    /\ tokens' = IF res = "Ok" THEN Append(tokens, tokens[i]) ELSE tokens
    /\ UNCHANGED <<now, storeVars, netVars, authVars, nonceVars, signVars>>

\* AuthContext::from_request, what it returns once the timestamp is read
\* and check_nonce has answered nonce_res (Panic: the timestamp is past
\* what SystemTime holds); Panic too when hex::decode panics on the
\* X-Signature value
from_request_result(auth_header, signature_header, nonce_res, issuer_public_key, custom_fields) ==
    IF nonce_res # "Ok" THEN nonce_res
    ELSE IF ~auth_header.bearer
    THEN "AuthenticationFailed(invalid auth header)"
    ELSE IF KeyPacket_parse(auth_header, issuer_public_key, custom_fields) # "Ok"
    THEN "InvalidKeyPacket"
    ELSE IF hex_decode(signature_header.text).res = "Panic" THEN "Panic"
    ELSE IF hex_decode(signature_header.text).res = "Err"
    THEN "AuthenticationFailed(invalid signature format)"
    ELSE IF hex_decode(signature_header.text).len # 64
    THEN "AuthenticationFailed(invalid signature length)"
    ELSE "Ok"

\* AuthContext::from_request for a PUT of DSmall to bucket b1, with the
\* issuer's public key that of K2
from_request(auth_header, signature_header, timestamp_header, nonce_header, custom_fields) ==
    LET parsed_ts == IsSome(timestamp_header)
        secs == IF parsed_ts THEN Unwrap(timestamp_header) ELSE 0
        overflow == parsed_ts /\ secs > I64_MAX
        r == IF ~parsed_ts THEN "AuthenticationFailed(invalid timestamp)"
             ELSE IF overflow THEN "Panic"
             ELSE check_nonce_result(nonces, nonce_header, secs, now)
        res == from_request_result(auth_header, signature_header, r,
                                   public_key("K2"), custom_fields)
        signed_request ==
            [canonical_request |->
                 CanonicalRequest(<<"P", "U", "T">>, <<"b", "1">>, None,
                                  Some(DSmall), [secs |-> secs, nanos |-> 0],
                                  nonce_header),
             signature |-> signature_header.signature,
             signer_key_id |-> auth_header.sub]
    IN  /\ nonceRet' = IF parsed_ts /\ ~overflow
                       THEN [op |-> "check_nonce", nonce |-> nonce_header,
                             timestamp |-> secs, at |-> now, res |-> r]
                       ELSE nonceRet
        /\ nonces' = IF r = "Ok"
                     THEN cleanup_old_nonces(PInsert(nonces, nonce_header, secs),
                                             now)
                     ELSE nonces
        /\ accepted' = IF r = "Ok"
                       THEN accepted \cup {[nonce |-> nonce_header,
                                            timestamp |-> secs, at |-> now]}
                       ELSE accepted
        /\ verifyRet' =
              [NoVerifyRet EXCEPT
                 !.op = "from_request", !.res = res, !.before = nonces,
                 !.request = IF res = "Ok" THEN Some(signed_request) ELSE None]
        /\ UNCHANGED <<signedReq, now, storeVars, netVars, authVars, tokenVars>>

(***************************************************************************)
(* Specifications.                                                         *)
(***************************************************************************)
Init ==
    StoreInit /\ AuthInit /\ NonceInit /\ TokenInit /\ SignInit /\ NetInit

\* the storage engine: one caller, one call at a time, on one bucket
Next ==
    \/ StoreCall(1, "b1")
    \/ StoreStep(1)

Spec == Init /\ [][Next]_vars

\* the same, with crashes and recovery
NextCrash ==
    \/ StoreCall(1, "b1")
    \/ StoreStep(1)
    \/ Crash

SpecCrash == Init /\ [][NextCrash]_vars

\* the key authority and its registry
NextAuth ==
    \/ \E k \in KeyIds, r \in Reasons : revoke_key(k, r)
    \/ \E k \in KeyIds, r \in Reasons : revoke_key_again(k, r)
    \/ \E k \in KeyIds, r \in Reasons : revoke_key_overflow(k, r)
    \/ \E p \in DelegationPairs : register_delegation(p[1], p[2])
    \/ \E p \in Packets : authorize_request(p)
    \/ \E k \in KeyIds : get_effective_permissions(k)
    \/ \E r \in Retentions : cleanup_old_revocations(r)
    \/ \E r \in Retentions : cleanup_old_revocations_panic(r)
    \/ \E t \in Instants : Tick(t)

SpecAuth == Init /\ [][NextAuth]_vars

\* the permission cache of the registry, under a system clock that advances
\* and is set back
NextCache ==
    \/ \E k \in KeyIds, r \in Reasons : revoke_key(k, r)
    \/ \E k \in KeyIds : get_effective_permissions(k)
    \/ \E k \in KeyIds : get_effective_permissions_panic(k)
    \/ \E t \in Instants : Tick(t)
    \/ \E t \in Instants : SetBack(t)

SpecCache == Init /\ [][NextCache]_vars

\* the nonce cache
Timestamps == {now + o : o \in Offsets} \cup {U64_MAX}

NextNonce ==
    \/ \E n \in Nonces, ts \in Timestamps : check_nonce(n, ts)
    \/ \E n \in Nonces, ts \in Timestamps : check_nonce_panic(n, ts)
    \/ \E t \in Instants : Tick(t)

SpecNonce == Init /\ [][NextNonce]_vars

\* key packets: issue and delegate
NextToken ==
    \/ \E p \in IssuedPerms : create_key_packet(p, 300)
    \/ \E i \in 1..Len(tokens), p \in PermSets, k \in KeyIds :
          delegate(i, p, 300, k)

SpecToken == Init /\ [][NextToken]_vars

\* key packets over time: issue, parse and let the clock advance
NextValid ==
    \/ \E p \in {all, for_buckets({"b1"})}, v \in Validities :
          create_key_packet(p, v)
    \/ \E i \in 1..Len(tokens), k \in KeyIds, cf \in CustomFields :
          parse(i, k, cf)
    \/ \E t \in Instants : Tick(t)
    \/ \E t \in Instants : SetBack(t)

SpecValid == Init /\ [][NextValid]_vars

\* permission sets intersected with each other
NextPerm == \E p \in Intersected, q \in Intersected : permissions_intersect(p, q)

SpecPerm == Init /\ [][NextPerm]_vars

\* signing a request and verifying what is presented with the signature
NextSign ==
    \/ \E r \in ClientRequests, k \in KeyPairs : sign(r, k)
    \/ \E r \in Requests, s \in KeyPairs, k \in KeyPairs :
          verify(r, key_id(public_key(s)), public_key(k))

SpecSign == Init /\ [][NextSign]_vars

\* versions made one after another, within one millisecond or across
NextVersion ==
    \/ \E sub_ms \in SubMillis, random \in 0..(RANDOM_SPACE - 1) :
          Version_new(sub_ms, random)
    \/ \E t \in Instants : Tick(t)

SpecVersion == Init /\ [][NextVersion]_vars

\* frames serialized, cut short and parsed
NextWire ==
    \/ \E header \in Headers, body \in Bodies : to_bytes(header, body)
    \/ \E n \in Cuts : cut(n)
    \/ from_bytes

SpecWire == Init /\ [][NextWire]_vars

\* requests are authenticated, the clock advances
NextReq ==
    \/ \E a \in AuthHeaders, s \in SignatureHeaders, ts \in TimestampHeaders,
          n \in NonceStrings, cf \in CustomFields :
              from_request(a, s, ts, n, cf)
    \/ \E t \in Instants : Tick(t)

SpecReq == Init /\ [][NextReq]_vars

\* frames written back to back to one stream and read from it
NextStream ==
    \/ \E header \in Headers, body \in Bodies : write_frame(header, body)
    \/ read_frame

SpecStream == Init /\ [][NextStream]_vars

\* request headers with and without their fields
NextMsg == \E json \in Documents : request_from_bytes(json)

SpecMsg == Init /\ [][NextMsg]_vars

\* two callers, each on a key of its own, put and delete chunked objects that
\* share their chunks; the steps of their calls interleave
RaceChunks == <<ChunkA, ChunkB>>

RaceKey(t) == IF t = 1 THEN <<"a">> ELSE <<"a", "b">>

NextRace ==
    \E t \in Threads :
        \/ put_large(t, "b1", RaceKey(t), RaceChunks)
        \/ delete(t, "b1", RaceKey(t))
        \/ put_large_lookup(t)
        \/ put_large_incr(t)
        \/ put_large_chunk(t)
        \/ put_large_ref(t)
        \/ put_large_meta(t)
        \/ delete_meta(t)
        \/ delete_data(t)
        \/ delete_lookup(t)
        \/ delete_decr(t)
        \/ delete_chunk(t)
        \/ delete_ref(t)
        \/ persist(t)

SpecRace == Init /\ [][NextRace]_vars

\* put_object and delete on three keys, of which one is a prefix of another,
\* with bodies that are empty, of VALUE_THRESHOLD bytes and one byte longer
ListData == {<<>>, DThreshold, DOver}

NextList ==
    \/ \E k \in ListKeys, d \in ListData : put_object(1, "b1", k, d)
    \/ \E k \in ListKeys : delete(1, "b1", k)
    \/ StoreStep(1)

SpecList == Init /\ [][NextList]_vars

\* one caller on two buckets: the same key and the same bodies in both
NextIso ==
    \/ \E b \in Buckets, d \in {DSmall, DOver} : put_object(1, b, <<"a">>, d)
    \/ \E b \in Buckets : delete(1, b, <<"a">>)
    \/ StoreStep(1)

SpecIso == Init /\ [][NextIso]_vars

\* batches of up to MaxBatch operations on the keys of one bucket, which
\* also takes chunked objects
MaxBatch == 3

BatchOps ==
    {Put(<<"a">>, DSmall), Put(<<"a">>, DOver), Put(<<"a", "b">>, DThreshold),
     Delete(<<"a", "b">>)}

Batches == UNION {[1..n -> BatchOps] : n \in 0..MaxBatch}

NextBatch ==
    \/ \E ops \in Batches : batch(1, "b1", ops)
    \/ put_object(1, "b1", <<"a", "b">>, DOver)
    \/ batch_op(1)
    \/ batch_done(1)
    \/ StoreStep(1)

SpecBatch == Init /\ [][NextBatch]_vars

\* two callers on one key of one bucket: the steps of their put_object calls
\* interleave, as nothing in Bucket or Storage holds a lock across a call
ConcKey == <<"a">>

ConcData == {<<>>, DThreshold, DOver}

NextConc ==
    \E t \in Threads :
        \/ \E d \in ConcData : put_object(t, "b1", ConcKey, d)
        \/ put_small_meta(t)
        \/ put_small_data(t)
        \/ put_large_lookup(t)
        \/ put_large_incr(t)
        \/ put_large_chunk(t)
        \/ put_large_ref(t)
        \/ put_large_meta(t)
        \/ persist(t)

SpecConc == Init /\ [][NextConc]_vars

(***************************************************************************)
(* Properties of the storage engine.                                       *)
(***************************************************************************)
Quiet == \A t \in Threads : th[t].pc = "idle"

PutOps == {"put_object", "put_small", "put_large"}

Untouched(b, k) == \A t \in Threads : th[t].pc = "idle" \/ th[t].b # b \/ th[t].key # k

HashesOf(metadata) ==
    IF is_chunked(metadata)
    THEN {Unwrap(metadata.chunk_manifest).chunks[i] :
            i \in 1..Len(Unwrap(metadata.chunk_manifest).chunks)}
    ELSE {}

\* C1: once a put of bytes B on (b, k) has returned Ok and no later put or
\* delete touches (b, k), get_object(b, k) returns Some(B), the same bytes
\* in the same order, whatever the key held before.
Thm_C1 ==
    \A b \in Buckets, k \in Keys :
        (IsSome(expect[b][k]) /\ Untouched(b, k))
            => get_object(part[b], k) = Ok(Some(Unwrap(expect[b][k])))

\* a put_object of a two-chunk body over an earlier object has returned
Wit_C1 ==
    /\ Quiet
    /\ ret[1].op = "put_object" /\ ret[1].res = "Ok"
    /\ IsSome(ret[1].old)
    /\ is_chunked(Unwrap(ret[1].meta))
    /\ Len(Unwrap(Unwrap(ret[1].meta).chunk_manifest).chunks) = 2
    /\ expect[ret[1].b][ret[1].key] = Some(DTwoChunks)
    /\ get_object(part[ret[1].b], ret[1].key) = Ok(Some(DTwoChunks))

\* C5: after delete(k) of a chunked object, a chunk of the deleted manifest
\* that no live manifest references has no blob left, and one that a live
\* manifest references keeps its blob.
CE_C5 ==
    (/\ Quiet
     /\ ret[1].op = "delete" /\ ret[1].res = "Ok"
     /\ IsSome(ret[1].old))
    => \A h \in HashesOf(Unwrap(ret[1].old)) :
          (LiveRefs(part[ret[1].b], h) = 0)
              <=> (chunk_key(h) \notin DOMAIN part[ret[1].b])

\* C6: after a put that replaced an object has returned, the old inline
\* bytes are gone if the new object is chunked, and the old chunk references
\* were released: no chunk is counted for a manifest that no longer exists.
CE_C6 ==
    (/\ Quiet
     /\ ret[1].op \in PutOps /\ ret[1].res = "Ok"
     /\ IsSome(ret[1].old))
    => /\ is_chunked(Unwrap(ret[1].meta))
            => data_key(ret[1].key) \notin DOMAIN part[ret[1].b]
       /\ \A h \in AllHashes :
            RefCount(part[ret[1].b], h) = LiveRefs(part[ret[1].b], h)

\* C7: in every state, between the partition writes of a call too, every
\* hash in the manifest of a stored chunked object has its blob present,
\* and the blob hashes to it.
Thm_C7 ==
    \A b \in Buckets, k \in Keys :
        LET m == get_metadata(part[b], k) IN
        IsSome(m) =>
            \A h \in HashesOf(Unwrap(m)) :
                /\ chunk_key(h) \in DOMAIN part[b]
                /\ ContentHash(part[b][chunk_key(h)]) = h

\* a call is between two writes of chunk entries while a chunked object is stored
Wit_C7 ==
    /\ th[1].pc \in {"pl_newref", "del_rmref"}
    /\ \E k \in Keys : ManifestOf(part[th[1].b], k) # <<>>

\* C8: between calls, chunk:h is present iff chunkref:h is, and every
\* stored count is at least 1.
Thm_C8 ==
    Quiet =>
        \A b \in Buckets, h \in AllHashes :
            /\ (chunk_key(h) \in DOMAIN part[b]) <=> (chunk_ref_key(h) \in DOMAIN part[b])
            /\ chunk_ref_key(h) \in DOMAIN part[b] => RefCount(part[b], h) >= 1

\* a delete has returned that removed the blob and the count of a chunk,
\* while another chunk is stored with several references
Wit_C8 ==
    /\ Quiet
    /\ ret[1].op = "delete" /\ ret[1].res = "Ok" /\ IsSome(ret[1].old)
    /\ \E h1 \in AllHashes, h2 \in HashesOf(Unwrap(ret[1].old)) :
         /\ RefCount(part[ret[1].b], h1) >= 2
         /\ chunk_key(h1) \in DOMAIN part[ret[1].b]
         /\ chunk_key(h2) \notin DOMAIN part[ret[1].b]
         /\ chunk_ref_key(h2) \notin DOMAIN part[ret[1].b]

\* C9: as long as no put was issued on a live key, chunkref:h is the number
\* of occurrences of h in the live manifests of the bucket, and the blob
\* chunk:h is there exactly when that number is not 0.
Thm_C9 ==
    (Quiet /\ ~replaced) =>
        \A b \in Buckets, h \in AllHashes :
            /\ RefCount(part[b], h) = LiveRefs(part[b], h)
            /\ (chunk_key(h) \in DOMAIN part[b]) <=> (LiveRefs(part[b], h) > 0)

\* two live objects share chunks: [A, B] and [A, B, A]
Wit_C9 ==
    /\ Quiet /\ ~replaced
    /\ \E k1, k2 \in Keys :
         /\ k1 # k2
         /\ ManifestOf(part["b1"], k1) = <<ContentHash(ChunkA), ContentHash(ChunkB)>>
         /\ Len(ManifestOf(part["b1"], k2)) = 3
    /\ RefCount(part["b1"], ContentHash(ChunkA)) = 3
    /\ RefCount(part["b1"], ContentHash(ChunkB)) = 2

\* the metadata is that of an object with the bytes B
MetaMatches(metadata, B) ==
    /\ metadata.size = BLen(B)
    /\ IsSome(metadata.content_hash) => Unwrap(metadata.content_hash) = ContentHash(B)
    /\ is_chunked(metadata) =>
          LET hs == Unwrap(metadata.chunk_manifest).chunks IN
          BCatAll([i \in 1..Len(hs) |-> hs[i].blake3]) = B

\* C10: after a crash in the middle of a put that replaces an object and the
\* recovery, get_object returns the complete old bytes or the complete new
\* bytes, and the metadata stored is that of the bytes returned.
CE_C10 ==
    \A t \in Threads :
        (/\ ret[t].res = "Crashed"
         /\ ret[t].op \in PutOps
         /\ IsSome(ret[t].old))
        => LET p == part[ret[t].b]
               m == get_metadata(p, ret[t].key) IN
           \E B \in {Unwrap(ret[t].old), Unwrap(ret[t].new)} :
               /\ get_object(p, ret[t].key) = Ok(Some(B))
               /\ IsSome(m)
               /\ MetaMatches(Unwrap(m), B)

(***************************************************************************)
(* Properties of the key authority.                                        *)
(***************************************************************************)
KeysOf(packet) == {packet.sub} \cup {packet.chain[i] : i \in 1..Len(packet.chain)}

\* C2: an authorize_request for a token whose subject or chain holds a key
\* that revoke_key has revoked at any earlier time fails with KeyRevoked,
\* naming such a key, whatever was called in between; a token with no
\* revoked key is authorized.
Thm_C2 ==
    (authRet.op = "authorize_request") =>
        LET ks == KeysOf(Unwrap(authRet.packet)) \cap everRevoked IN
        IF ks # {}
        THEN authRet.res = "KeyRevoked" /\ authRet.rkey \in ks
        ELSE authRet.res = "Ok"

\* a token of an unrevoked subject is refused for a revoked key of its chain,
\* after the revocation left the history and with a delegation registered
\* and a permission cached
Wit_C2 ==
    /\ authRet.op = "authorize_request"
    /\ authRet.res = "KeyRevoked"
    /\ authRet.rkey # Unwrap(authRet.packet).sub
    /\ Unwrap(authRet.packet).sub \notin everRevoked
    /\ revocation_history = <<>>
    /\ DOMAIN delegation_chains # {}
    /\ DOMAIN permission_cache # {}

\* the step is a revoke_key call that returns res
RevokeReturns(res) ==
    /\ authRet' # authRet
    /\ authRet'.op = "revoke_key"
    /\ authRet'.res = res

\* C21: a revoke_key of a revoked key returns AuthorizationFailed and leaves
\* the revoked set, the history and the delegation map as they were; a
\* revoke_key that returns Ok is of a key that was not revoked, adds it to
\* the revoked set and appends one entry {key_id, revoked_at = now,
\* revoked_by = the root key, reason} to the history.
Thm_C21 ==
    [][/\ RevokeReturns("AuthorizationFailed") =>
             /\ authRet'.key \in revoked_keys
             /\ UNCHANGED <<revoked_keys, revocation_history,
                            delegation_chains>>
       /\ RevokeReturns("Ok") =>
             /\ authRet'.key \notin revoked_keys
             /\ revoked_keys' = revoked_keys \cup {authRet'.key}
             /\ Len(revocation_history') = Len(revocation_history) + 1
             /\ SubSeq(revocation_history', 1, Len(revocation_history))
                    = revocation_history
             /\ LET e == revocation_history'[Len(revocation_history')] IN
                /\ e.key_id = authRet'.key
                /\ e.revoked_at = now
                /\ e.revoked_by = "root"
                /\ e.reason \in Reasons
             /\ UNCHANGED delegation_chains
       /\ (authRet' # authRet /\ authRet'.op = "revoke_key"
              /\ authRet'.key \in revoked_keys)
             => authRet'.res = "AuthorizationFailed"
      ]_vars

\* a second revoke_key of a key was refused, with its first revocation in
\* the history and a delegation registered
Wit_C21 ==
    /\ authRet.op = "revoke_key"
    /\ authRet.res = "AuthorizationFailed"
    /\ \E i \in 1..Len(revocation_history) :
          revocation_history[i].key_id = authRet.key
    /\ DOMAIN delegation_chains # {}

\* C22: a cleanup_old_revocations(retention) returns, leaves the revoked
\* set as it was and removes from the history exactly the entries whose
\* revoked_at is older than now - retention, whatever the retention period.
CE_C22 ==
    [][(/\ authRet'.op = "cleanup_old_revocations"
        /\ now' = now
        /\ authRet' # authRet \/ revocation_history' # revocation_history)
           => LET Kept(e) == e.revoked_at >= now - authRet'.retention IN
              /\ authRet'.res = "Ok"
              /\ revoked_keys' = revoked_keys
              /\ revocation_history' = SelectSeq(revocation_history, Kept)
      ]_vars

(***************************************************************************)
(* Properties of the nonce cache.                                          *)
(***************************************************************************)
\* C3: check_nonce(n, ts) returns Ok at most once, and a check_nonce whose
\* timestamp is more than window_seconds away from the clock fails with
\* ReplayAttack.
CE_C3 ==
    /\ \A a1, a2 \in accepted :
         (a1.nonce = a2.nonce /\ a1.timestamp = a2.timestamp) => a1 = a2
    /\ (/\ nonceRet.op = "check_nonce"
        /\ \/ nonceRet.timestamp - nonceRet.at > window_seconds
           \/ nonceRet.at - nonceRet.timestamp > window_seconds)
       => nonceRet.res = "ReplayAttack"

\* C4: two check_nonce calls of one nonce that both return Ok are more than
\* window_seconds apart on the clock, whatever their timestamps.
CE_C4 ==
    \A a1, a2 \in accepted :
        (a1.nonce = a2.nonce /\ a1 # a2 /\ a1.at <= a2.at)
            => a2.at - a1.at > window_seconds

\* C12: a key whose last completed call is a delete (or that was never put)
\* has no metadata and no object, whether the deleted object was inline or
\* chunked and whatever was done to other keys since.
Thm_C12 ==
    \A b \in Buckets, k \in Keys :
        (expect[b][k] = None /\ Untouched(b, k))
            => /\ get_metadata(part[b], k) = None
               /\ get_object(part[b], k) = Ok(None)

\* a delete of a chunked object has returned while the other key is live
Wit_C12 ==
    /\ Quiet
    /\ ret[1].op = "delete" /\ ret[1].res = "Ok"
    /\ IsSome(ret[1].old) /\ is_chunked(Unwrap(ret[1].old))
    /\ expect[ret[1].b][ret[1].key] = None
    /\ \E k \in Keys : IsSome(expect[ret[1].b][k])

\* C13: between calls, list_objects(b, prefix, None) holds exactly the live
\* keys of b that start with prefix, in strictly ascending byte order, so
\* each once.
Thm_C13 ==
    Quiet =>
        \A prefix \in Prefixes :
            LET r == list_objects(part["b1"], prefix, None) IN
            /\ {r[i] : i \in 1..Len(r)}
                 = {k \in ListKeys : IsLive("b1", k) /\ starts_with(k, prefix)}
            /\ \A i, j \in 1..Len(r) : i < j => LexLess(r[i], r[j])

\* three live keys, inline and chunked, one deleted and put again, and a
\* prefix that selects two of them
Wit_C13 ==
    /\ Quiet
    /\ list_objects(part["b1"], <<>>, None) = <<<<"a">>, <<"a", "b">>, <<"b">>>>
    /\ list_objects(part["b1"], <<"a">>, None) = <<<<"a">>, <<"a", "b">>>>
    /\ list_objects(part["b1"], <<"b">>, None) = <<<<"b">>>>
    /\ chunk_key(ContentHash(DOver)) \in DOMAIN part["b1"]
    /\ data_key(<<"a">>) \in DOMAIN part["b1"]

\* C33 (as claimed): get_effective_permissions of a key whose revocation
\* succeeded never returns Some(permissions).
CE_C33 ==
    (/\ authRet.op = "get_effective_permissions"
     /\ authRet.key \in everRevoked)
        => authRet.res # "Some"

\* C36 (as claimed): every revoke_key call returns, with Ok or with
\* AuthorizationFailed, whatever register_delegation has put in the map.
CE_C36 ==
    authRet.op = "revoke_key" => authRet.res \in {"Ok", "AuthorizationFailed"}

CE_C32 ==
    (/\ verifyRet.op = "from_request"
     /\ verifyRet.res \in {"AuthenticationFailed(invalid auth header)",
                           "InvalidKeyPacket",
                           "AuthenticationFailed(invalid signature format)",
                           "AuthenticationFailed(invalid signature length)"})
        => nonces = verifyRet.before

\* the first n elements of a sequence, all of it if it is shorter
FirstN(s, n) == SubSeq(s, 1, IF n < Len(s) THEN n ELSE Len(s))

\* C39 (as claimed): between calls, list_objects(b, prefix, Some(n)) is the
\* first min(n, total) keys of list_objects(b, prefix, None), for n = 0 too.
CE_C39 ==
    Quiet =>
        \A prefix \in Prefixes, n \in 0..3 :
            list_objects(part["b1"], prefix, Some(n))
                = FirstN(list_objects(part["b1"], prefix, None), n)

\* C20: right after a check_nonce call, whether it returned Ok or
\* ReplayAttack, the cache holds no entry with a timestamp older than
\* now - window_seconds.
CE_C20 ==
    (/\ nonceRet.op = "check_nonce"
     /\ nonceRet.res \in {"Ok", "ReplayAttack"}
     /\ nonceRet.at = now)
        => \A n \in DOMAIN nonces : nonces[n] >= now - window_seconds

(***************************************************************************)
(* Properties of concurrent calls.                                         *)
(***************************************************************************)
\* C11: after two put_object calls on the same (bucket, key) have both
\* returned, however their steps interleaved, the stored metadata and bytes
\* belong to one of the two calls: get_object returns bytes whose length and
\* hash are the size and content_hash of the stored metadata.
CE_C11 ==
    (/\ Quiet
     /\ \A t \in Threads : ret[t].op = "put_object" /\ ret[t].res = "Ok"
     /\ ret[1].b = ret[2].b /\ ret[1].key = ret[2].key)
    => LET p == part[ret[1].b]
           m == get_metadata(p, ret[1].key)
           r == get_object(p, ret[1].key) IN
       /\ IsSome(m)
       /\ m \in {ret[1].meta, ret[2].meta}
       /\ r.res = "Ok" /\ IsSome(r.val)
       /\ MetaMatches(Unwrap(m), Unwrap(r.val))

\* C23: in every state, get_object on a key whose metadata has a manifest
\* fails with an Internal error if a chunk of the manifest has no blob, and
\* otherwise returns Some of all the blobs in manifest order; it returns
\* neither part of the bytes nor None.
Thm_C23 ==
    \A k \in Keys :
        LET p == part["b1"]
            m == get_metadata(p, k) IN
        (IsSome(m) /\ is_chunked(Unwrap(m))) =>
            LET hs == Unwrap(Unwrap(m).chunk_manifest).chunks
                missing == \E i \in 1..Len(hs) : chunk_key(hs[i]) \notin DOMAIN p
                r == get_object(p, k) IN
            /\ missing => r.res = "Err" /\ r.err = "Internal" /\ r.val = None
            /\ ~missing =>
                  r = Ok(Some(BCatAll([i \in 1..Len(hs) |-> p[chunk_key(hs[i])]])))
            /\ r # Ok(None)

\* a stored manifest of two chunks of which the first has its blob and the
\* second has none
Wit_C23 ==
    \E k \in Keys :
        LET p == part["b1"]
            hs == ManifestOf(p, k) IN
        /\ Len(hs) = 2
        /\ chunk_key(hs[1]) \in DOMAIN p
        /\ chunk_key(hs[2]) \notin DOMAIN p
        /\ get_object(p, k) = Err("Internal")

\* C30: after concurrent put_large and delete calls on objects that share a
\* chunk have all returned, none of them having replaced a live object,
\* chunkref:h is the number of references to h from the live manifests, and
\* every chunk of a live manifest has its blob.
CE_C30 ==
    (Quiet /\ ~replaced) =>
        LET p == part["b1"] IN
        /\ \A h \in AllHashes : RefCount(p, h) = LiveRefs(p, h)
        /\ \A k \in Keys : \A i \in 1..Len(ManifestOf(p, k)) :
              chunk_key(ManifestOf(p, k)[i]) \in DOMAIN p

\* C24: a delete of a key that has no metadata issues no insert and no
\* remove from its call to its return, so that no entry of the partition is
\* added, removed or modified, and it returns Ok; this is so for the second
\* of two deletes of a key.
Thm_C24 ==
    [][/\ (/\ th[1].pc = "idle"
           /\ th'[1].op = "delete"
           /\ th'[1].pc # "idle")
             => /\ part' = part /\ journal' = journal
                /\ th'[1].old = get_metadata(part[th'[1].b], th'[1].key)
       /\ (/\ th[1].op = "delete"
           /\ th[1].pc # "idle"
           /\ th[1].old = None)
             => /\ part' = part
                /\ journal' \in {journal, <<>>}
                /\ th'[1].pc = "idle"
                /\ ret'[1].op = "delete" /\ ret'[1].res = "Ok"
                /\ ret'[1].key = th[1].key
      ]_vars

\* a delete of a key without an object has returned, in a bucket that holds
\* an object under another key and the blob of a chunk
Wit_C24 ==
    /\ Quiet
    /\ ret[1].op = "delete" /\ ret[1].res = "Ok"
    /\ ret[1].old = None
    /\ \E k \in Keys : k # ret[1].key /\ IsLive("b1", k)
    /\ chunk_key(ContentHash(ChunkA)) \in DOMAIN part["b1"]

\* C27 (as claimed): of two Versions made by Version::new, the one made
\* first is the smaller.
CE_C27 ==
    \A i, j \in 1..Len(versions) :
        i < j => VersionLess(versions[i], versions[j])

\* the bytes at offset 0..3 read as a little-endian number
LengthField(bytes) ==
    ByteAt(bytes, 0) + 256 * ByteAt(bytes, 1) + 65536 * ByteAt(bytes, 2)
        + 16777216 * ByteAt(bytes, 3)

\* C28: the bytes of a frame made from H and B are the length of H in four
\* little-endian bytes, then H, then B, and from_bytes makes of them a frame
\* with header H and body B.
Thm_C28 ==
    IsSome(frame) =>
        LET H == Unwrap(frame).header
            B == Unwrap(frame).body IN
        /\ BLen(wire) = 4 + BLen(H) + BLen(B)
        /\ LengthField(wire) = BLen(H)
        /\ BTake(BDrop(wire, 4), BLen(H)) = H
        /\ BDrop(wire, 4 + BLen(H)) = B
        /\ parsed # NotParsed =>
              /\ parsed.res = "Ok"
              /\ parsed.val.header = H
              /\ parsed.val.body = B

\* a frame with a header of exactly MAX_HEADER_SIZE bytes and a body went
\* through to_bytes and from_bytes; so did the frame with neither
Wit_C28 ==
    /\ IsSome(frame)
    /\ parsed.res = "Ok"
    /\ \/ /\ BLen(Unwrap(frame).header) = MAX_HEADER_SIZE
          /\ Unwrap(frame).body # <<>>
          /\ BLen(parsed.val.header) = MAX_HEADER_SIZE
       \/ /\ Unwrap(frame) = WireFrame(<<>>, <<>>)
          /\ wire = Rep(0, 4)

\* C29 (as claimed): from_bytes fails on fewer than 4 bytes and on fewer than
\* 4 + hdr_len bytes, and never returns a frame whose header is longer than
\* MAX_HEADER_SIZE.
CE_C29 ==
    parsed # NotParsed =>
        /\ BLen(wire) < 4 => parsed = Err("Frame too short")
        /\ BLen(wire) >= 4 /\ BLen(wire) < 4 + LengthField(wire)
              => parsed = Err("Incomplete frame")
        /\ parsed.res = "Ok" => BLen(parsed.val.header) <= MAX_HEADER_SIZE

\* C37 (as claimed): read_frame returns the frame written first of those
\* not yet read, with its own header and its own body.
CE_C37 ==
    (IsSome(frame) /\ parsed # NotParsed) => parsed = Ok(Unwrap(frame))

\* the value of a required field, if it has the JSON type of the field
Typed(json, f) ==
    IF f = "timestamp" THEN as_u64(json[f]) ELSE as_str(json[f])

\* C38 (as claimed): a header with all required fields parses, whatever
\* other fields it has, into a message with those fields; a header that
\* lacks a required field is refused.
CE_C38 ==
    parsed # NotParsed =>
        IF RequiredFields \subseteq DOMAIN wire
        THEN (\A f \in RequiredFields : IsSome(Typed(wire, f)))
                => /\ parsed.res = "Ok"
                   /\ \A f \in RequiredFields :
                         parsed.val[f] = Unwrap(Typed(wire, f))
        ELSE parsed.res = "Err"

\* what the keys of the bucket hold after the operations of a batch, the
\* oversize Puts left out, are applied in order to what they held before
RECURSIVE AfterBatch(_, _)
AfterBatch(held, ops) ==
    IF ops = <<>> THEN held
    ELSE LET o == Head(ops) IN
         AfterBatch(IF o.op = "Delete" THEN [held EXCEPT ![o.key] = Ok(None)]
                    ELSE IF BLen(o.data) > VALUE_THRESHOLD THEN held
                    ELSE [held EXCEPT ![o.key] = Ok(Some(o.data))],
                    Tail(ops))

\* C26: a batch returns one result per operation, in the order of ops: Error
\* in the slots of the Puts over VALUE_THRESHOLD, Success in all others; and
\* what every key holds afterwards is what the other operations, applied in
\* order, leave there (an oversize Put stores nothing).
Thm_C26 ==
    ret[1].op = "batch" =>
        /\ Len(ret[1].results) = Len(ret[1].ops)
        /\ \A i \in 1..Len(ret[1].ops) :
              ret[1].results[i] =
                  IF /\ ret[1].ops[i].op = "Put"
                     /\ BLen(ret[1].ops[i].data) > VALUE_THRESHOLD
                  THEN "Error" ELSE "Success"
        /\ \A k \in Keys :
              get_object(part[ret[1].b], k) = AfterBatch(ret[1].before, ret[1].ops)[k]

\* a batch of three has returned: an oversize Put on a key that held an
\* object, between a Put and a Delete that were both carried out
Wit_C26 ==
    /\ ret[1].op = "batch"
    /\ ret[1].ops = <<Put(<<"a", "b">>, DThreshold), Put(<<"a">>, DOver),
                      Delete(<<"a", "b">>)>>
    /\ ret[1].results = <<"Success", "Error", "Success">>
    /\ ret[1].before[<<"a">>] = Ok(Some(DSmall))
    /\ get_object(part["b1"], <<"a">>) = Ok(Some(DSmall))

\* C25: no step of a put_object or delete on one bucket changes, for a key
\* of another bucket, what get_object and get_metadata return, nor what
\* list_objects returns for that bucket, nor one of its chunk blobs or
\* reference counts.
Thm_C25 ==
    [][LET on == IF th[1].pc = "idle" THEN th'[1].b ELSE th[1].b IN
       \A b \in Buckets \ {on} :
           /\ \A k \in Keys :
                 /\ get_object(part'[b], k) = get_object(part[b], k)
                 /\ get_metadata(part'[b], k) = get_metadata(part[b], k)
           /\ \A prefix \in {<<>>, <<"a">>} :
                 list_objects(part'[b], prefix, None)
                     = list_objects(part[b], prefix, None)
           /\ \A h \in AllHashes :
                 /\ get_chunk(part'[b], h) = get_chunk(part[b], h)
                 /\ RefCount(part'[b], h) = RefCount(part[b], h)
      ]_vars

\* both buckets held the same chunked body under the same key, and a delete
\* of the key in b1 has returned
Wit_C25 ==
    /\ Quiet
    /\ ret[1].op = "delete" /\ ret[1].res = "Ok" /\ ret[1].b = "b1"
    /\ IsSome(ret[1].old) /\ is_chunked(Unwrap(ret[1].old))
    /\ get_metadata(part["b2"], ret[1].key) = ret[1].old
    /\ get_object(part["b2"], ret[1].key) = Ok(Some(DOver))
    /\ get_object(part["b1"], ret[1].key) = Ok(None)
    /\ chunk_key(ContentHash(DOver)) \notin DOMAIN part["b1"]
    /\ RefCount(part["b2"], ContentHash(DOver)) = 1

(***************************************************************************)
(* Properties of the routing by size.                                      *)
(***************************************************************************)
\* C19: between calls, the object that put_object stored for a body of at
\* most VALUE_THRESHOLD bytes has metadata with a content hash and no
\* manifest and its bytes under data:key, and the object stored for a longer
\* body has metadata with a non-empty manifest; every inline object is of
\* at most VALUE_THRESHOLD bytes and every chunked object of more; an empty
\* body is read back as Some(empty bytes).
Thm_C19 ==
    Quiet =>
        \A k \in ListKeys :
            LET p == part["b1"]
                m == get_metadata(p, k)
                d == expect["b1"][k] IN
            /\ IsSome(d) =>
                  /\ IsSome(m)
                  /\ is_chunked(Unwrap(m)) <=> BLen(Unwrap(d)) > VALUE_THRESHOLD
                  /\ ~is_chunked(Unwrap(m)) =>
                        /\ Unwrap(m).content_hash = Some(ContentHash(Unwrap(d)))
                        /\ get_small(p, k) = d
                  /\ Unwrap(d) = <<>> => get_object(p, k) = Ok(Some(<<>>))
            /\ IsSome(m) =>
                  IF is_chunked(Unwrap(m))
                  THEN /\ Unwrap(m).size > VALUE_THRESHOLD
                       /\ Unwrap(Unwrap(m).chunk_manifest).chunks # <<>>
                       /\ Unwrap(m).content_hash = None
                  ELSE /\ Unwrap(m).size <= VALUE_THRESHOLD
                       /\ IsSome(Unwrap(m).content_hash)

\* a body of VALUE_THRESHOLD bytes stored inline, beside a body one byte
\* longer stored in chunks and an empty body
Wit_C19 ==
    /\ Quiet
    /\ \E k1, k2, k3 \in ListKeys :
          /\ expect["b1"][k1] = Some(DThreshold)
          /\ ~is_chunked(Unwrap(get_metadata(part["b1"], k1)))
          /\ expect["b1"][k2] = Some(DOver)
          /\ is_chunked(Unwrap(get_metadata(part["b1"], k2)))
          /\ expect["b1"][k3] = Some(<<>>)
          /\ get_object(part["b1"], k3) = Ok(Some(<<>>))

(***************************************************************************)
(* Properties of the durability barrier.                                   *)
(***************************************************************************)
\* the call that the crash interrupted was on another key than (b, k)
CrashedElsewhere(b, k) ==
    /\ \E t \in Threads : ret[t].res = "Crashed"
    /\ \A t \in Threads :
          ret[t].res = "Crashed" => ret[t].b # b \/ ret[t].key # k

\* C18: when every call has returned, nothing written is still unpersisted;
\* and after a crash in the middle of a call and a reopen, every key that
\* the interrupted call was not on reads back the bytes of its last put
\* that returned Ok, or nothing if a delete returned Ok since.
Thm_C18 ==
    /\ Quiet => journal = <<>> /\ durable = part
    /\ \A b \in Buckets, k \in Keys :
          CrashedElsewhere(b, k) =>
              get_object(part[b], k) = Ok(expect[b][k])

\* reopened after a crash in the middle of a call on one key, while the
\* other key holds a chunked object
Wit_C18 ==
    \E k \in Keys :
        /\ CrashedElsewhere("b1", k)
        /\ IsSome(expect["b1"][k])
        /\ BLen(Unwrap(expect["b1"][k])) > VALUE_THRESHOLD
        /\ get_object(part["b1"], k) = Ok(expect["b1"][k])

(***************************************************************************)
(* Properties of key packets.                                              *)
(***************************************************************************)
\* the field of Permissions that stands for an operation
BitOf(operation) ==
    CASE operation = "Read" -> "can_read"
      [] operation = "Write" -> "can_write"
      [] operation = "Delete" -> "can_delete"
      [] operation = "Batch" -> "can_batch"
      [] operation = "Delegate" -> "can_delegate"
      [] operation = "Revoke" -> "can_revoke"

\* the (bucket, operation) pairs that a permission set allows
Allowed(perms) ==
    {bo \in AllBuckets \X Operations :
        /\ perms.buckets = {} \/ bo[1] \in perms.buckets
        /\ perms[BitOf(bo[2])]}

\* the packets from which packet i descends
RECURSIVE Ancestors(_)
Ancestors(i) ==
    IF tokens[i].parent = 0 THEN {}
    ELSE {tokens[i].parent} \cup Ancestors(tokens[i].parent)

\* the last call was a delegate that asked for more than its packet allows
Exceeding ==
    /\ tokRet.op = "delegate"
    /\ ~(Allowed(tokRet.permissions)
            \subseteq Allowed(tokens[tokRet.parent].permissions))

\* C35 (as claimed): P.intersect(Q) is a subset of P and of Q under
\* is_subset_of and allows a (bucket, operation) pair only if P and Q both
\* allow it.
CE_C35 ==
    tokRet.op = "intersect" =>
        /\ is_subset_of(tokRet.out, tokRet.permissions)
        /\ is_subset_of(tokRet.out, tokRet.other)
        /\ Allowed(tokRet.out)
              \subseteq (Allowed(tokRet.permissions) \cap Allowed(tokRet.other))

\* what the registry reads of a packet
ClaimsOf(tok) == [sub |-> tok.sub, chain |-> tok.delegation_chain]

\* C34 (as claimed): the chain of a delegated packet holds the subject of
\* every packet it descends from, so that with the subject of any ancestor
\* revoked the registry answers KeyRevoked for the descendant.
CE_C34 ==
    \A i \in 1..Len(tokens) :
        \A a \in Ancestors(i) :
            /\ \E n \in 1..Len(tokens[i].delegation_chain) :
                  tokens[i].delegation_chain[n] = tokens[a].sub
            /\ validate_key_packet({tokens[a].sub}, ClaimsOf(tokens[i])).res
                  = "KeyRevoked"

\* C14: every delegated packet allows only (bucket, operation) pairs that
\* each of its ancestors allows, and a delegate that asks for more than its
\* packet allows fails and issues no packet.
Thm_C14 ==
    /\ \A i \in 1..Len(tokens) : \A a \in Ancestors(i) :
          Allowed(tokens[i].permissions)
              \subseteq Allowed(tokens[a].permissions)
    /\ Exceeding => tokRet.res # "Ok" /\ Len(tokens) = tokRet.len

\* a packet delegated twice, allowing less than its parent, which allows
\* less than the issued packet, after a delegate that asked for too much
Wit_C14 ==
    /\ Exceeding
    /\ tokRet.res = "AuthorizationFailed"
    /\ \E i \in 1..Len(tokens) :
          LET p == tokens[i].parent IN
          /\ p # 0
          /\ tokens[p].parent # 0
          /\ Allowed(tokens[i].permissions) # Allowed(tokens[p].permissions)
          /\ Allowed(tokens[p].permissions)
                 # Allowed(tokens[tokens[p].parent].permissions)

\* C15 as stated: a delegate that asks for more than its packet allows is
\* rejected with AuthorizationFailed.
CE_C15 == Exceeding => tokRet.res = "AuthorizationFailed"

\* C15: a delegate that asks for more than its packet allows is rejected,
\* with InsufficientPermissions when the packet lacks can_delegate and with
\* AuthorizationFailed when it has it.
Thm_C15 ==
    Exceeding =>
        tokRet.res = IF tokens[tokRet.parent].permissions.can_delegate
                     THEN "AuthorizationFailed"
                     ELSE "InsufficientPermissions"

\* a read_only packet delegated from an all-permissions packet is asked to
\* delegate read_write
Wit_C15 ==
    /\ Exceeding
    /\ tokRet.permissions = read_write
    /\ tokens[tokRet.parent].permissions = read_only
    /\ tokens[tokRet.parent].parent # 0
    /\ tokens[tokens[tokRet.parent].parent].permissions = all
    /\ tokRet.res = "InsufficientPermissions"

\* iat <= now < exp, false when either claim is absent
CurrentlyValid(tok) ==
    /\ tok.issued_at # None
    /\ tok.expires_at # None
    /\ tok.issued_at[1] <= now
    /\ now < tok.expires_at[1]

\* C16: allows_operation is true exactly when the packet is currently valid,
\* its bucket set is empty or holds the bucket, and the bit of the operation
\* is set; it is false from exp on and before iat.
Thm_C16 ==
    \A i \in 1..Len(tokens), b \in AllBuckets, o \in Operations :
        LET tok == tokens[i] IN
        /\ allows_operation(tok, b, o, now)
              <=> /\ CurrentlyValid(tok)
                  /\ tok.permissions.buckets = {} \/ b \in tok.permissions.buckets
                  /\ tok.permissions[BitOf(o)]
        /\ tok.expires_at # None /\ now >= tok.expires_at[1]
              => ~allows_operation(tok, b, o, now)
        /\ tok.issued_at # None /\ now < tok.issued_at[1]
              => ~allows_operation(tok, b, o, now)

\* at the instant one packet expires, a second is not yet valid and a third
\* allows reads of b1 but not of b3
Wit_C16 ==
    \E i, j, k \in 1..Len(tokens) :
        /\ tokens[i].expires_at = Some(now)
        /\ tokens[i].issued_at # Some(now)
        /\ tokens[j].issued_at # None /\ now < tokens[j].issued_at[1]
        /\ allows_operation(tokens[k], "b1", "Read", now)
        /\ ~allows_operation(tokens[k], "b3", "Read", now)
        /\ ~allows_operation(tokens[k], "b1", "Delegate", now)

(***************************************************************************)
(* Properties of signed requests.                                          *)
(***************************************************************************)
\* the two requests agree on method, bucket, key, payload hash, timestamp in
\* seconds and nonce
SameFields(r, p) ==
    /\ r.method = p.method
    /\ r.bucket = p.bucket
    /\ r.key = p.key
    /\ r.payload_hash = p.payload_hash
    /\ r.timestamp.secs = p.timestamp.secs
    /\ r.nonce = p.nonce

\* C17: a signed request verifies under the signer's public key; a request
\* that differs from the signed one in method, bucket, key, payload hash,
\* timestamp in seconds or nonce does not verify with its signature, and no
\* request verifies under another public key (key ID mismatch when the
\* signer_key_id is the signer's).
Thm_C17 ==
    verifyRet.op = "verify" =>
        LET s == signedReq[1].signed
            K == signedReq[1].signer
            p == verifyRet.request[1]
            pk == verifyRet.public_key[1]
            same == SameFields(s.canonical_request, p.canonical_request)
        IN  /\ same /\ p.signer_key_id = s.signer_key_id /\ pk = public_key(K)
                  => verifyRet.res = "Ok"
            /\ ~same => verifyRet.res # "Ok"
            /\ pk # public_key(K) => verifyRet.res # "Ok"
            /\ pk # public_key(K) /\ p.signer_key_id = s.signer_key_id
                  => verifyRet.res = "AuthenticationFailed"

\* a request for a key with a slash in it, signed and then verified with a
\* timestamp later in the same second
Wit_C17 ==
    /\ verifyRet.op = "verify"
    /\ verifyRet.res = "Ok"
    /\ verifyRet.request[1].canonical_request.key = Some(<<"a", "/", "b">>)
    /\ verifyRet.request[1].canonical_request.timestamp
           # signedReq[1].signed.canonical_request.timestamp

====
